---- MODULE Spec2Model ----
(***************************************************************************)
(* mbrain: Slack notes captured into a Notion database.                    *)
(*                                                                         *)
(* The model covers the event router (api/slack/events.ts), the Notion     *)
(* store operations (services/notion.ts, notion-helpers.ts), the intent    *)
(* classifier's post-processing (services/claude.ts), the reminder service *)
(* (services/reminder.ts), the status-sync service (services/status-sync)  *)
(* and the hourly cron handler (api/cron/hourly.ts).                       *)
(*                                                                         *)
(* Strings are tokens; a note's content is a sequence of tokens, so that   *)
(* string concatenation is sequence concatenation.  An absent / empty JS   *)
(* string is "", an absent date is NoDate, an absent number is NoNumber.   *)
(* Times are in hours.                                                     *)
(***************************************************************************)
EXTENDS Integers, Sequences, FiniteSets, TLC

VARIABLES
    store,   \* the Notion database: sequence of pages, page id = index
    sent,    \* chat operations and error logs of the handler that ran last
    last,    \* the event the last handler processed and how it ended
    now,     \* Date.now(): hours for the reminder service, milliseconds for the webhook
    probe,   \* inputs and result of the pure function under examination
    service, \* the reminder service the cron handler is deployed with
    rateLimitMap,  \* the rate limiter's entry per user id
    webhook  \* the webhook's last response, how many responses the last request
             \* was sent, and the background tasks it registered

vars == <<store, sent, last, now, probe, service, rateLimitMap, webhook>>

----------------------------------------------------------------------------
(* Bounds of the model *)

MaxNotes == 2        \* pages ever created in the database
MaxAppends == 2      \* thread replies appended to one page
MaxSynced == 100     \* most notes of a database that are Done and mirrored
MaxDrifted == 21     \* most notes of a database that are drifted
MaxHours == 50       \* hourly cron runs of the hourly specification
MaxNow == 192        \* hours the clock runs
MaxCount == 9        \* largest reminder count handed to needsReminder
MaxBatch == 23       \* most notes waiting for one cron run
MaxAsked == 7        \* most notes in the database a question is asked over
MaxDeliveries == 3   \* most invocations of the router in flight at once
MaxLinks == 3        \* most tokens of a short text handed to extractUrls
MaxRun == 101        \* most links of one syntax in a long text
MaxTasks == 1        \* most background tasks waiting at once
MaxClock == 60001    \* latest time, in milliseconds, of the webhook specification

----------------------------------------------------------------------------
(* Environment data: the messages that exist in the Slack channel *)

Msgs == {"m1", "m2"}                 \* ts of top-level messages
ReplyIds == {"r1"}                   \* ts of thread replies
BlankMsg == "m0"                     \* a top-level message of whitespace only
Blank == " "
Channel == "C1"

MsgText(ts) ==
    CASE ts = "m1" -> "A"
      [] ts = "m2" -> "B"
      [] ts = "r1" -> "x"
      [] ts = "r2" -> "y"
      [] OTHER -> Blank

\* String.prototype.trim on a token
Trim(text) == IF text = Blank THEN "" ELSE text

(* URL extractor.  A text is a sequence of tokens: words, wrapped links     *)
(* <url|label> and bare URLs; each regular expression finds the tokens of  *)
(* its syntax from left to right.                                          *)

MAX_URL_MATCHES == 100

\* variant: the slice keeps everything
Take_All(seq, n) == seq

\* Array.prototype.slice(0, n)
Take(seq, n) == SubSeq(seq, 1, IF Len(seq) < n THEN Len(seq) ELSE n)

Word == [kind |-> "word", url |-> ""]
WrappedLink(url) == [kind |-> "wrapped", url |-> url]
BareUrl(url) == [kind |-> "bare", url |-> url]

\* successive slackLinkRegex.exec(text): match[1] of every wrapped link
slackLinkMatches(text) == SelectSeq(text, LAMBDA token : token.kind = "wrapped")

\* successive plainUrlRegex.exec(text): the lookbehind skips wrapped links
plainUrlMatches(text) == SelectSeq(text, LAMBDA token : token.kind = "bare")

UrlsOf(matches) == [k \in 1..Len(matches) |-> matches[k].url]

\* the bare matches pushed: those not yet in urls when their turn comes
Pushed(urls, plain) ==
    LET fresh == {k \in 1..Len(plain) :
                     /\ \A j \in 1..Len(urls) : urls[j] # plain[k]
                     /\ \A j \in 1..(k - 1) : plain[j] # plain[k]}
    IN  [i \in 1..Cardinality(fresh) |->
            plain[CHOOSE k \in fresh : Cardinality({j \in fresh : j <= k}) = i]]

\* variant: the earlier extractor, whose loops run while there are matches
extractUrls_NoCap(text) ==
    LET urls == UrlsOf(slackLinkMatches(text))
    IN  urls \o Pushed(urls, UrlsOf(plainUrlMatches(text)))

extractUrls(text) ==
    LET wrapped == Take(slackLinkMatches(text), MAX_URL_MATCHES)
        iterations == Len(wrapped)
        plain == Take(plainUrlMatches(text), MAX_URL_MATCHES - iterations)
        urls == UrlsOf(wrapped)
    IN  urls \o Pushed(urls, UrlsOf(plain))

\* the tokens of a message text: "B" names its link twice, wrapped and bare
MsgTokens(text) ==
    IF text = "B"
    THEN <<Word, WrappedLink("https://b.com"), BareUrl("https://b.com")>>
    ELSE <<Word>>

\* the links extractUrls finds in a message text
UrlsIn(text) == extractUrls(MsgTokens(text))

NoDate == -1
NoNumber == -1
DoneMarker == "white_check_mark"
DeleteMarker == "x"
AckReaction == "heavy_check_mark"
Separator == "\n\n---\n\n"

----------------------------------------------------------------------------
(* Intent classifier: post-processing of the model's JSON answer           *)

ConfidenceThresholdPct == 70

\* what can go wrong between the call and the validated answer
Failures ==
    {"noApiKey", "timeout", "emptyContent", "nonText", "badJson", "noIntent", "noIsMeaningful"}

\* answers of the language model the router is run with; failure = "none"
\* is an answer that parsed and passed the structure validation
RawResponses ==
    { [failure |-> "timeout", intent |-> "", isMeaningful |-> FALSE, category |-> "",
       subcategory |-> "", confidence |-> 0, nextAction |-> ""],
      [failure |-> "none", intent |-> "question", isMeaningful |-> TRUE, category |-> "",
       subcategory |-> "", confidence |-> 95, nextAction |-> ""],
      [failure |-> "none", intent |-> "noise", isMeaningful |-> FALSE, category |-> "",
       subcategory |-> "", confidence |-> 0, nextAction |-> ""],
      [failure |-> "none", intent |-> "note", isMeaningful |-> FALSE, category |-> "Projects",
       subcategory |-> "", confidence |-> 90, nextAction |-> ""],
      [failure |-> "none", intent |-> "note", isMeaningful |-> TRUE, category |-> "Projects",
       subcategory |-> "", confidence |-> 90, nextAction |-> "act"] }

\* answers the classifier is examined with: every failure, and note answers
\* over every proposed category, with and without a subcategory, with a
\* confidence on either side of the threshold or out of range
ProposedCategories == {"", "Projects", "Areas"}
ProposedSubcategories == {"", "Health"}
ProposedConfidences == {69, 70, 150}

ClassifierResponses ==
    { [failure |-> f, intent |-> "", isMeaningful |-> FALSE, category |-> "",
       subcategory |-> "", confidence |-> 0, nextAction |-> ""] : f \in Failures }
    \cup { [failure |-> "none", intent |-> i, isMeaningful |-> (i = "question"),
            category |-> "", subcategory |-> "", confidence |-> 0, nextAction |-> ""] :
            i \in {"question", "noise"} }
    \cup { [failure |-> "none", intent |-> "note", isMeaningful |-> TRUE, category |-> cat,
            subcategory |-> sub, confidence |-> conf, nextAction |-> ""] :
            cat \in ProposedCategories, sub \in ProposedSubcategories,
            conf \in ProposedConfidences }

\* the one answer that matters where the handler does not classify
NoResponse == CHOOSE raw \in RawResponses : raw.failure # "none"

Clamp01(c) == IF c < 0 THEN 0 ELSE IF c > 100 THEN 100 ELSE c

\* variant: a failed call is filed under Inbox
FallbackClassification_Inbox ==
    [intent |-> "note", isMeaningful |-> TRUE, category |-> "Inbox",
     subcategory |-> "", confidence |-> 0, nextAction |-> ""]

FallbackClassification ==
    [intent |-> "note", isMeaningful |-> TRUE, category |-> "Uncategorized",
     subcategory |-> "", confidence |-> 0, nextAction |-> ""]

\* the function threw to its caller
Raised ==
    [intent |-> "raised", isMeaningful |-> FALSE, category |-> "",
     subcategory |-> "", confidence |-> 0, nextAction |-> ""]

\* variant: a failure of the call is thrown on to the caller
classifyMessageWithIntent_Rethrow(text, raw) ==
    IF text = "" \/ raw.failure # "none" THEN Raised
    ELSE IF raw.intent = "question" THEN
        [intent |-> "question", isMeaningful |-> TRUE, category |-> "",
         subcategory |-> "", confidence |-> 100, nextAction |-> ""]
    ELSE [intent |-> "noise", isMeaningful |-> FALSE, category |-> "",
          subcategory |-> "", confidence |-> 0, nextAction |-> ""]

classifyMessageWithIntent(text, raw) ==
    IF text = "" THEN Raised
    ELSE IF raw.failure # "none" THEN FallbackClassification
    ELSE IF raw.intent = "question" THEN
        [intent |-> "question", isMeaningful |-> TRUE, category |-> "",
         subcategory |-> "", confidence |-> 100, nextAction |-> ""]
    ELSE IF raw.intent = "noise" \/ ~raw.isMeaningful THEN
        [intent |-> "noise", isMeaningful |-> FALSE, category |-> "",
         subcategory |-> "", confidence |-> 0, nextAction |-> ""]
    ELSE
        LET normalizedConfidence == Clamp01(raw.confidence)
            finalCategory ==
                IF normalizedConfidence < ConfidenceThresholdPct THEN "Inbox"
                ELSE IF raw.category = "" THEN "Uncategorized" ELSE raw.category
        IN  [intent |-> "note", isMeaningful |-> TRUE, category |-> finalCategory,
             subcategory |-> IF finalCategory = "Areas" THEN raw.subcategory ELSE "",
             confidence |-> normalizedConfidence, nextAction |-> raw.nextAction]

----------------------------------------------------------------------------
(* Notion store *)

\* databases.query: the ids of the pages that are not archived and satisfy
\* the filter, in the database's order
PageIds(st) == [i \in 1..Len(st) |-> i]

\* matches[i]: whether page i satisfies the filter
Query(st, matches) ==
    SelectSeq(PageIds(st), LAMBDA i : ~st[i].archived /\ matches[i])

HasSlackId(id, page) == page.slackMessageId = id

\* variant: a guard that never finds the note
isDuplicate_Never(st, slackMessageId) == FALSE

isDuplicate(st, slackMessageId) ==
    LET matches == [i \in DOMAIN st |-> HasSlackId(slackMessageId, st[i])]
    IN  Len(Query(st, matches)) > 0

\* page id of the first match, 0 for null
findEntryBySlackMessageId(st, slackMessageId) ==
    LET matches == [i \in DOMAIN st |-> HasSlackId(slackMessageId, st[i])]
        results == Query(st, matches)
    IN  IF Len(results) = 0 THEN 0 ELSE results[1]

validateNotionEntry(entry) ==
    entry.content # "" /\ entry.category # "" /\ entry.slackMessageId # ""

buildNotionProperties(entry) ==
    [slackMessageId |-> entry.slackMessageId,
     channelId      |-> entry.channelName,
     content        |-> <<entry.content>>,
     category       |-> entry.category,
     subcategory    |-> entry.subcategory,
     confidence     |-> entry.confidence,
     nextAction     |-> entry.nextAction,
     urls           |-> entry.urls,
     status         |-> "Open",
     syncedStatus   |-> "Open",
     lastReminder   |-> NoDate,
     reminderCount  |-> NoNumber,
     archived       |-> FALSE]

createNotionEntry(st, entry) == Append(st, buildNotionProperties(entry))

\* variant: the reply is put in front of the content
appendToNotionEntry_Prepend(st, pageId, additionalContent) ==
    [st EXCEPT ![pageId].content = <<additionalContent>> \o <<Separator>> \o @]

\* variant: appending reopens the note
appendToNotionEntry_Reopen(st, pageId, additionalContent) ==
    [st EXCEPT ![pageId].content = @ \o <<Separator>> \o <<additionalContent>>,
               ![pageId].status = "Open"]

\* pages.retrieve and safeGetRichText(properties, "Content")
retrieveContent(st, pageId) == st[pageId].content

\* variant: the update writes the reply alone
updateContent_Bare(st, pageId, currentContent, additionalContent) ==
    [st EXCEPT ![pageId].content = <<additionalContent>>]

\* pages.update with the content that was read, the separator and the reply
updateContent(st, pageId, currentContent, additionalContent) ==
    LET newContent == currentContent \o <<Separator>> \o <<additionalContent>>
    IN  [st EXCEPT ![pageId].content = newContent]

appendToNotionEntry(st, pageId, additionalContent) ==
    updateContent(st, pageId, retrieveContent(st, pageId), additionalContent)

SetStatus(st, pageId, status) == [st EXCEPT ![pageId].status = status]

\* variant: marking done also records the status as mirrored
markEntryAsDone_Synced(st, slackMessageId) ==
    LET entry == findEntryBySlackMessageId(st, slackMessageId)
    IN  IF entry = 0 THEN [marked |-> FALSE, store |-> st]
        ELSE [marked |-> TRUE,
              store |-> [st EXCEPT ![entry].status = "Done", ![entry].syncedStatus = "Done"]]

markEntryAsDone(st, slackMessageId) ==
    LET entry == findEntryBySlackMessageId(st, slackMessageId)
    IN  IF entry = 0 THEN [marked |-> FALSE, store |-> st]
        ELSE [marked |-> TRUE, store |-> SetStatus(st, entry, "Done")]

\* variant: the page is found but its status is not written
markEntryAsOpen_Noop(st, slackMessageId) ==
    [marked |-> findEntryBySlackMessageId(st, slackMessageId) # 0, store |-> st]

markEntryAsOpen(st, slackMessageId) ==
    LET entry == findEntryBySlackMessageId(st, slackMessageId)
    IN  IF entry = 0 THEN [marked |-> FALSE, store |-> st]
        ELSE [marked |-> TRUE, store |-> SetStatus(st, entry, "Open")]

deleteEntry(st, slackMessageId) ==
    LET entry == findEntryBySlackMessageId(st, slackMessageId)
    IN  IF entry = 0 THEN [marked |-> FALSE, store |-> st]
        ELSE [marked |-> TRUE, store |-> [st EXCEPT ![entry].archived = TRUE]]

----------------------------------------------------------------------------
(* Chat operations.  A send records what was attempted: ok = FALSE is a    *)
(* send whose HTTP response was not ok (the helper returns false).  The    *)
(* failure of a handler run is one of Faults: "store" is a store call that *)
(* throws, "react" / "reply" a send that throws, "...False" a send that    *)
(* reports failure.                                                        *)

RouterFaults == {"none", "store", "react", "reply"}

\* the Slack method behind a send: reactions.add / reactions.remove, or
\* chat.postMessage
ApiOf(op) == IF op \in {"react", "unreact"} THEN "react" ELSE "reply"

FalseFault(op) == IF ApiOf(op) = "react" THEN "reactFalse" ELSE "replyFalse"

\* addSlackReaction always adds the same reaction name
addSlackReaction(ts) == [op |-> "react", ts |-> ts, what |-> AckReaction, ok |-> TRUE]

postSlackReply(ts, text) == [op |-> "reply", ts |-> ts, what |-> text, ok |-> TRUE]

\* the awaited sends of a handler in order, cut at the one that throws
RECURSIVE RunSends(_, _)
RunSends(intended, fault) ==
    IF intended = <<>> THEN [sent |-> <<>>, threw |-> FALSE]
    ELSE LET s == Head(intended)
         IN  IF fault = ApiOf(s.op) THEN [sent |-> <<>>, threw |-> TRUE]
             ELSE LET rest == RunSends(Tail(intended), fault)
                  IN  [sent  |-> <<[s EXCEPT !.ok = (fault # FalseFault(s.op))]>> \o rest.sent,
                       threw |-> rest.threw]

Result(st, out, outcome) == [store |-> st, sent |-> out, outcome |-> outcome]

AfterSends(st, intended, fault, outcome) ==
    LET r == RunSends(intended, fault)
    IN  Result(st, r.sent, IF r.threw THEN "error" ELSE outcome)

----------------------------------------------------------------------------
(* Q&A engine, as far as the router depends on it *)

\* extractSearchResult: what the answer functions see of a page
SearchResult(st, pageId) ==
    [pageId |-> pageId, content |-> st[pageId].content, category |-> st[pageId].category,
     status |-> st[pageId].status, urls |-> st[pageId].urls,
     slackMessageId |-> st[pageId].slackMessageId]

ResultsOf(st, pageIds) == [k \in 1..Len(pageIds) |-> SearchResult(st, pageIds[k])]

\* the answer, the notes handed to the model and whether it was called
Answer(text, notes, invoked) == [text |-> text, notes |-> notes, invoked |-> invoked]

generateAnswer(notes, modelFails) ==
    IF notes = <<>> THEN Answer("noNotes", notes, FALSE)
    ELSE IF modelFails THEN Answer("error", notes, TRUE)
    ELSE Answer("answer", notes, TRUE)

\* variant: the first page of the database, whatever its message id
getEntryContent_First(st, slackMessageId) ==
    ResultsOf(st, Take(Query(st, [i \in 1..Len(st) |-> TRUE]), 1))

\* the note with the message id (page_size 1), <<>> for null
getEntryContent(st, slackMessageId) ==
    ResultsOf(st, Take(Query(st, [i \in 1..Len(st) |->
                                     HasSlackId(slackMessageId, st[i])]), 1))

\* the answer to a question in a thread and the notes handed to the model
ThreadAnswer(st, parentSlackMessageId) ==
    LET noteEntry == getEntryContent(st, parentSlackMessageId)
    IN  IF noteEntry = <<>> THEN Answer("noteNotFound", <<>>, FALSE)
        ELSE generateAnswer(noteEntry, FALSE)

answerThreadQuestion(st, parentSlackMessageId) ==
    ThreadAnswer(st, parentSlackMessageId).text

----------------------------------------------------------------------------
(* Event router *)

NewEntry(text, ts, c) ==
    [content |-> text, category |-> c.category, subcategory |-> c.subcategory,
     confidence |-> c.confidence, slackMessageId |-> ts, channelName |-> Channel,
     urls |-> UrlsIn(text), nextAction |-> c.nextAction]

buildReplyText(c) == <<"Saved to Notion", c.category, c.subcategory, c.confidence>>

\* variant: noise is treated as a note
ReplyDisposition_NoDrop(c) ==
    IF c.intent = "question" THEN "answer" ELSE "append"

\* what processThreadReply does with a classified reply
ReplyDisposition(c) ==
    IF c.intent = "question" THEN "answer"
    ELSE IF c.intent = "noise" \/ ~c.isMeaningful THEN "drop"
    ELSE "append"

processThreadReply(st, ts, threadTs, raw, fault) ==
    LET text == Trim(MsgText(ts))
        c == classifyMessageWithIntent(text, raw)
        parentEntry == findEntryBySlackMessageId(st, threadTs)
    IN  IF text = "" THEN Result(st, <<>>, "empty")
        ELSE IF ReplyDisposition(c) = "answer" THEN
            IF fault = "store" THEN Result(st, <<>>, "error")
            ELSE AfterSends(st, <<postSlackReply(ts, answerThreadQuestion(st, threadTs))>>,
                            fault, "answered")
        ELSE IF ReplyDisposition(c) = "drop" THEN Result(st, <<>>, "noise")
        ELSE IF fault = "store" THEN Result(st, <<>>, "error")
        ELSE IF parentEntry = 0 THEN Result(st, <<>>, "noparent")
        ELSE AfterSends(appendToNotionEntry(st, parentEntry, text),
                        <<addSlackReaction(ts)>>, fault, "appended")

\* what processMessage does with a classified top-level message
MessageDisposition(c) ==
    IF c.intent = "question" THEN "answer"
    ELSE IF c.intent = "noise" \/ ~c.isMeaningful THEN "drop"
    ELSE "save"

\* variant: the reaction and the reply are sent before the note is created
processMessage_SendFirst(st, ts, raw, fault) ==
    LET text == Trim(MsgText(ts))
        c == classifyMessageWithIntent(text, raw)
        notionEntry == NewEntry(text, ts, c)
    IN  IF text = "" THEN Result(st, <<>>, "empty")
        ELSE IF MessageDisposition(c) = "answer" THEN
            IF fault = "store" THEN Result(st, <<>>, "error")
            ELSE AfterSends(st, <<postSlackReply(ts, "answer")>>, fault, "answered")
        ELSE IF MessageDisposition(c) = "drop" THEN Result(st, <<>>, "noise")
        ELSE IF fault = "store" THEN Result(st, <<>>, "error")
        ELSE IF isDuplicate(st, ts) THEN Result(st, <<>>, "duplicate")
        ELSE IF c.category = "" THEN Result(st, <<>>, "error")
        ELSE IF ~validateNotionEntry(notionEntry) THEN Result(st, <<>>, "error")
        ELSE IF fault = "create"
        THEN Result(st, <<addSlackReaction(ts), postSlackReply(ts, buildReplyText(c))>>,
                    "error")
        ELSE LET r == RunSends(<<addSlackReaction(ts), postSlackReply(ts, buildReplyText(c))>>,
                               fault)
             IN  Result(createNotionEntry(st, notionEntry), r.sent,
                        IF r.threw THEN "createdThenError" ELSE "created")

processMessage(st, ts, raw, fault) ==
    LET text == Trim(MsgText(ts))
        c == classifyMessageWithIntent(text, raw)
        notionEntry == NewEntry(text, ts, c)
    IN  IF text = "" THEN Result(st, <<>>, "empty")
        ELSE IF MessageDisposition(c) = "answer" THEN
            IF fault = "store" THEN Result(st, <<>>, "error")
            ELSE AfterSends(st, <<postSlackReply(ts, "answer")>>, fault, "answered")
        ELSE IF MessageDisposition(c) = "drop" THEN Result(st, <<>>, "noise")
        ELSE IF fault = "store" THEN Result(st, <<>>, "error")
        ELSE IF isDuplicate(st, ts) THEN Result(st, <<>>, "duplicate")
        ELSE IF c.category = "" THEN Result(st, <<>>, "error")
        ELSE IF ~validateNotionEntry(notionEntry) THEN Result(st, <<>>, "error")
        ELSE IF fault = "create" THEN Result(st, <<>>, "error")
        ELSE LET r == RunSends(<<addSlackReaction(ts), postSlackReply(ts, buildReplyText(c))>>,
                               fault)
             IN  Result(createNotionEntry(st, notionEntry), r.sent,
                        IF r.threw THEN "createdThenError" ELSE "created")

\* variant: whatever was fetched is stored again, without the test of its
\* classification
restoreEntryFromSlack_Unfiltered(st, ts, fetched, raw, fault) ==
    LET text == IF fetched THEN MsgText(ts) ELSE ""
        c == classifyMessageWithIntent(text, raw)
        notionEntry == NewEntry(text, ts, c)
    IN  IF text = "" THEN Result(st, <<>>, "unfetchable")
        ELSE IF fault = "store" THEN Result(st, <<>>, "error")
        ELSE AfterSends(createNotionEntry(st, notionEntry),
                        <<postSlackReply(ts, "Note restored in Notion")>>, fault, "restored")

\* fetched: whether conversations.history returned the message
restoreEntryFromSlack(st, ts, fetched, raw, fault) ==
    LET text == IF fetched THEN MsgText(ts) ELSE ""
        c == classifyMessageWithIntent(text, raw)
        notionEntry == NewEntry(text, ts, c)
    IN  IF text = "" THEN Result(st, <<>>, "unfetchable")
        ELSE IF c.intent # "note" \/ ~c.isMeaningful \/ c.category = ""
             THEN Result(st, <<>>, "notANote")
        ELSE IF fault = "store" \/ ~validateNotionEntry(notionEntry)
             THEN Result(st, <<>>, "error")
        ELSE AfterSends(createNotionEntry(st, notionEntry),
                        <<postSlackReply(ts, "Note restored in Notion")>>, fault, "restored")

\* variant: the confirmation is posted whether or not a note was found
Confirmed_Always(st, r, ts, channel, text, fault, outcome) ==
    IF fault = "store" THEN Result(st, <<>>, "error")
    ELSE IF channel = "" THEN Result(r.store, <<>>, outcome)
    ELSE AfterSends(r.store, <<postSlackReply(ts, text)>>, fault, outcome)

\* the confirmation a reaction handler posts once the store call succeeded
Confirmed(st, r, ts, channel, text, fault, outcome) ==
    IF fault = "store" THEN Result(st, <<>>, "error")
    ELSE IF ~r.marked THEN Result(st, <<>>, "untracked")
    ELSE IF channel = "" THEN Result(r.store, <<>>, outcome)
    ELSE AfterSends(r.store, <<postSlackReply(ts, text)>>, fault, outcome)

handleReactionAdded(st, reaction, ts, channel, fault) ==
    IF reaction = DoneMarker
    THEN Confirmed(st, markEntryAsDone(st, ts), ts, channel, "Marked as done", fault, "done")
    ELSE IF reaction = DeleteMarker
    THEN Confirmed(st, deleteEntry(st, ts), ts, channel, "Note deleted from Notion",
                   fault, "deleted")
    ELSE Result(st, <<>>, "ignored")

handleReactionRemoved(st, reaction, ts, channel, fetched, raw, fault) ==
    IF reaction = DoneMarker
    THEN Confirmed(st, markEntryAsOpen(st, ts), ts, channel, "Reopened", fault, "reopened")
    ELSE IF reaction = DeleteMarker /\ channel # ""
    THEN restoreEntryFromSlack(st, ts, fetched, raw, fault)
    ELSE Result(st, <<>>, "ignored")

----------------------------------------------------------------------------
(* Reminder service.  The sources hold two services behind the one import  *)
(* of the cron handler: the daily one (services/reminder.ts), which keeps   *)
(* no count, and the tiered one, which does.                               *)

ReminderServices == {"daily", "tiered"}

DAILY_THRESHOLD == 3
EVERY_OTHER_DAY_THRESHOLD == 6
AUTO_PARK_THRESHOLD == 8

oneDay == 24
twoDays == 48
oneWeek == 168

PendingPageSize == 50
StatusPageSize == 100
MAX_REMINDERS_PER_RUN == 20
MAX_STATUS_SYNCS_PER_RUN == 20

extractNumber(number) == IF number = NoNumber THEN 0 ELSE number

\* variant: the tiers compare with > instead of >=
needsReminder_Strict(reminderCount, lastReminderDate, t) ==
    IF lastReminderDate = NoDate THEN TRUE
    ELSE LET timeSinceReminder == t - lastReminderDate
         IN  IF reminderCount < DAILY_THRESHOLD THEN timeSinceReminder > oneDay
             ELSE IF reminderCount < EVERY_OTHER_DAY_THRESHOLD
                  THEN timeSinceReminder > twoDays
             ELSE IF reminderCount < AUTO_PARK_THRESHOLD
                  THEN timeSinceReminder > oneWeek
             ELSE FALSE

\* t is Date.now()
needsReminder(reminderCount, lastReminderDate, t) ==
    IF lastReminderDate = NoDate THEN TRUE
    ELSE LET timeSinceReminder == t - lastReminderDate
         IN  IF reminderCount < DAILY_THRESHOLD THEN timeSinceReminder >= oneDay
             ELSE IF reminderCount < EVERY_OTHER_DAY_THRESHOLD
                  THEN timeSinceReminder >= twoDays
             ELSE IF reminderCount < AUTO_PARK_THRESHOLD
                  THEN timeSinceReminder >= oneWeek
             ELSE FALSE

\* variant: the query does not ask for the status
PendingFilter_AnyStatus(page) == page.nextAction # ""

PendingFilter(page) == page.nextAction # "" /\ page.status = "Open"

PendingAction(st, i) ==
    [pageId |-> i, slackMessageId |-> st[i].slackMessageId,
     channelId |-> st[i].channelId, nextAction |-> st[i].nextAction,
     reminderCount |-> extractNumber(st[i].reminderCount)]

getPendingActions(st, t) ==
    LET results == Take(Query(st, [i \in DOMAIN st |-> PendingFilter(st[i])]), PendingPageSize)
        Wanted(i) ==
            /\ st[i].nextAction # "" /\ st[i].slackMessageId # "" /\ st[i].channelId # ""
            /\ needsReminder(extractNumber(st[i].reminderCount), st[i].lastReminder, t)
        pending == SelectSeq(results, Wanted)
    IN  [k \in 1..Len(pending) |-> PendingAction(st, pending[k])]

\* the tiered service; currentCount is NoNumber when the caller passes none
updateLastReminder(st, pageId, currentCount, t) ==
    IF currentCount = NoNumber \/ currentCount < 0
    THEN [threw |-> TRUE, store |-> st]
    ELSE [threw |-> FALSE,
          store |-> [st EXCEPT ![pageId].lastReminder = t,
                               ![pageId].reminderCount = currentCount + 1]]

\* the daily service: the query itself asks for a last reminder that is
\* absent or before one day ago
PendingFilterDaily(page, t) ==
    /\ page.nextAction # "" /\ page.status = "Open"
    /\ (page.lastReminder = NoDate \/ page.lastReminder < t - oneDay)

PendingActionDaily(st, i) ==
    [pageId |-> i, slackMessageId |-> st[i].slackMessageId,
     channelId |-> st[i].channelId, nextAction |-> st[i].nextAction,
     reminderCount |-> NoNumber]

getPendingActionsDaily(st, t) ==
    LET results == Take(Query(st, [i \in DOMAIN st |-> PendingFilterDaily(st[i], t)]),
                        PendingPageSize)
        Wanted(i) == st[i].nextAction # "" /\ st[i].slackMessageId # "" /\ st[i].channelId # ""
        pending == SelectSeq(results, Wanted)
    IN  [k \in 1..Len(pending) |-> PendingActionDaily(st, pending[k])]

updateLastReminderDaily(st, pageId, t) == [st EXCEPT ![pageId].lastReminder = t]

\* exported by the reminder service; no handler calls it
parkEntry(st, pageId) == SetStatus(st, pageId, "Parked")

----------------------------------------------------------------------------
(* Status-sync service *)

needsSync(currentStatus, syncedStatus) ==
    \/ currentStatus = "Done" /\ syncedStatus # "Done"
    \/ currentStatus = "Open" /\ syncedStatus = "Done"

StatusFilter(page) == page.status = "Done" \/ page.syncedStatus = "Done"

StatusChange(st, i) ==
    [pageId |-> i, slackMessageId |-> st[i].slackMessageId, channelId |-> st[i].channelId,
     currentStatus |-> st[i].status, syncedStatus |-> st[i].syncedStatus]

getStatusChanges(st) ==
    LET results == Take(Query(st, [i \in DOMAIN st |-> StatusFilter(st[i])]), StatusPageSize)
        Wanted(i) ==
            /\ st[i].slackMessageId # "" /\ st[i].channelId # "" /\ st[i].status # ""
            /\ needsSync(st[i].status, st[i].syncedStatus)
        changes == SelectSeq(results, Wanted)
    IN  [k \in 1..Len(changes) |-> StatusChange(st, changes[k])]

\* variant: the write lands on the first page of the database
updateSyncedStatus_WrongPage(st, pageId, status) ==
    [st EXCEPT ![1].syncedStatus = status]

updateSyncedStatus(st, pageId, status) ==
    [st EXCEPT ![pageId].syncedStatus = status]

----------------------------------------------------------------------------
(* Hourly cron handler.  A run has at most one failing call, named by a    *)
(* fault: the pass it occurs in, the note it concerns and the call.        *)

NoFault == [pass |-> "none", at |-> "", kind |-> "none"]

CronFaults ==
    {NoFault}
    \cup {[pass |-> p, at |-> "", kind |-> "query"] : p \in {"reminders", "sync"}}
    \cup {[pass |-> "reminders", at |-> ts, kind |-> k] :
            ts \in Msgs, k \in {"reply", "replyFalse", "store"}}
    \cup {[pass |-> "sync", at |-> ts, kind |-> k] :
            ts \in Msgs, k \in {"react", "reactFalse", "reply", "replyFalse", "store"}}

FaultAt(fault, pass, ts) ==
    IF fault.pass = pass /\ fault.at = ts THEN fault.kind ELSE "none"

\* console.error of a caught failure
ErrorLog(ts, what) == [op |-> "error", ts |-> ts, what |-> what, ok |-> FALSE]

postSlackReminder(ts, text) == [op |-> "reminder", ts |-> ts, what |-> text, ok |-> TRUE]

postSlackStatusUpdate(ts, text) == [op |-> "status", ts |-> ts, what |-> text, ok |-> TRUE]

removeSlackReaction(ts) == [op |-> "unreact", ts |-> ts, what |-> DoneMarker, ok |-> TRUE]

Step(st, out) == [store |-> st, sent |-> out]

\* one iteration of the reminder loop.  The handler calls
\* updateLastReminder(action.pageId) with the page id alone: the daily
\* service writes the date, the tiered one is left without a currentCount.
RemindOne(st, action, f, t, svc) ==
    LET ts == action.slackMessageId
        r == RunSends(<<postSlackReminder(ts, action.nextAction)>>, f)
        updated == updateLastReminder(st, action.pageId, NoNumber, t)
    IN  IF r.threw THEN Step(st, <<ErrorLog(ts, "reminder")>>)
        ELSE IF ~r.sent[1].ok THEN Step(st, r.sent)
        ELSE IF f = "store" THEN Step(st, r.sent \o <<ErrorLog(ts, "reminder")>>)
        ELSE IF svc = "daily" THEN Step(updateLastReminderDaily(st, action.pageId, t), r.sent)
        ELSE IF updated.threw THEN Step(st, r.sent \o <<ErrorLog(ts, "reminder")>>)
        ELSE Step(updated.store, r.sent)

RECURSIVE RemindAll(_, _, _, _, _)

\* variant: the first failing candidate ends the reminder pass
RemindAll_Abort(st, actions, fault, t, svc) ==
    IF actions = <<>> THEN Step(st, <<>>)
    ELSE LET action == Head(actions)
             one == RemindOne(st, action, FaultAt(fault, "reminders", action.slackMessageId),
                              t, svc)
             rest == RemindAll(one.store, Tail(actions), fault, t, svc)
         IN  IF \E k \in 1..Len(one.sent) : ~one.sent[k].ok THEN one
             ELSE Step(rest.store, one.sent \o rest.sent)

RemindAll(st, actions, fault, t, svc) ==
    IF actions = <<>> THEN Step(st, <<>>)
    ELSE LET action == Head(actions)
             one == RemindOne(st, action, FaultAt(fault, "reminders", action.slackMessageId),
                              t, svc)
             rest == RemindAll(one.store, Tail(actions), fault, t, svc)
         IN  IF one.sent = <<>> THEN rest
             ELSE Step(rest.store, one.sent \o rest.sent)

\* one iteration of the status loop; the results of the sends are not read
SyncOne(st, change, f) ==
    LET ts == change.slackMessageId
        done == change.currentStatus = "Done" /\ change.syncedStatus # "Done"
        reopened == change.currentStatus = "Open" /\ change.syncedStatus = "Done"
        intended ==
            IF done
            THEN <<addSlackReaction(ts), postSlackStatusUpdate(ts, "Marked as done in Notion")>>
            ELSE <<removeSlackReaction(ts), postSlackStatusUpdate(ts, "Reopened in Notion")>>
        r == RunSends(intended, f)
    IN  IF ~done /\ ~reopened THEN Step(st, <<>>)
        ELSE IF r.threw THEN Step(st, r.sent \o <<ErrorLog(ts, "sync")>>)
        ELSE IF f = "store" THEN Step(st, r.sent \o <<ErrorLog(ts, "sync")>>)
        ELSE Step(updateSyncedStatus(st, change.pageId, IF done THEN "Done" ELSE "Open"),
                  r.sent)

RECURSIVE SyncAll(_, _, _)
SyncAll(st, changes, fault) ==
    IF changes = <<>> THEN Step(st, <<>>)
    ELSE LET change == Head(changes)
             one == SyncOne(st, change, FaultAt(fault, "sync", change.slackMessageId))
             rest == SyncAll(one.store, Tail(changes), fault)
         IN  IF one.sent = <<>> THEN rest
             ELSE Step(rest.store, one.sent \o rest.sent)

cronHandler(st, authorized, fault, t, svc) ==
    IF ~authorized THEN Result(st, <<>>, "unauthorized")
    ELSE IF fault.pass = "reminders" /\ fault.kind = "query"
    THEN Result(st, <<ErrorLog("", "cron")>>, "failed")
    ELSE LET pendingActions ==
                 IF svc = "daily" THEN getPendingActionsDaily(st, t)
                 ELSE getPendingActions(st, t)
             reminded == RemindAll(st, Take(pendingActions, MAX_REMINDERS_PER_RUN), fault,
                                   t, svc)
             statusChanges == getStatusChanges(reminded.store)
             synced == SyncAll(reminded.store, Take(statusChanges, MAX_STATUS_SYNCS_PER_RUN),
                               fault)
         IN  IF fault.pass = "sync" /\ fault.kind = "query"
             THEN Result(reminded.store, reminded.sent \o <<ErrorLog("", "cron")>>, "failed")
             ELSE Result(synced.store, reminded.sent \o synced.sent, "ok")

----------------------------------------------------------------------------
(* Question answering over the whole channel *)

MAX_CONTEXT_NOTES == 5
MAX_URL_RESULTS == 20
SearchLimit == 20       \* the limit answerChannelQuestion hands to searchNotes

\* notion.search answers with the pages it ranks for the query (hits), at
\* most limit * 2 of them, of which the first limit are kept
searchNotes(st, hits, limit) ==
    LET found == SelectSeq(hits, LAMBDA i : ~st[i].archived)
    IN  ResultsOf(st, Take(Take(found, limit * 2), limit))

getNotesWithUrls(st) ==
    ResultsOf(st, Take(Query(st, [i \in 1..Len(st) |->
                                     st[i].urls # <<>> /\ st[i].status = "Open"]),
                       MAX_URL_RESULTS))

\* variant: the search results are used whatever their status
answerChannelQuestion_AnyStatus(st, isUrlQuestion, hits, modelFails) ==
    LET notesWithUrls == getNotesWithUrls(st)
        searchResults == searchNotes(st, hits, SearchLimit)
    IN  IF isUrlQuestion
        THEN IF notesWithUrls = <<>> THEN Answer("noOpenLinks", <<>>, FALSE)
             ELSE generateAnswer(Take(notesWithUrls, MAX_CONTEXT_NOTES), modelFails)
        ELSE IF searchResults = <<>> THEN Answer("noOpenNotes", <<>>, FALSE)
             ELSE generateAnswer(Take(searchResults, MAX_CONTEXT_NOTES), modelFails)

answerChannelQuestion(st, isUrlQuestion, hits, modelFails) ==
    LET notesWithUrls == getNotesWithUrls(st)
        searchResults == searchNotes(st, hits, SearchLimit)
        openNotes == SelectSeq(searchResults, LAMBDA note : note.status = "Open")
    IN  IF isUrlQuestion
        THEN IF notesWithUrls = <<>> THEN Answer("noOpenLinks", <<>>, FALSE)
             ELSE generateAnswer(Take(notesWithUrls, MAX_CONTEXT_NOTES), modelFails)
        ELSE IF openNotes = <<>> THEN Answer("noOpenNotes", <<>>, FALSE)
             ELSE generateAnswer(Take(openNotes, MAX_CONTEXT_NOTES), modelFails)

----------------------------------------------------------------------------
(* Rate limiter *)

Users == {"U1", "U2"}

RATE_LIMIT_MAX == 10
RATE_LIMIT_WINDOW_MS == 60 * 1000
MAX_RATE_LIMIT_ENTRIES == 1000

\* rateLimitMap.get(userId) of a user the map has no entry for
NoEntry == [count |-> 0, resetAt |-> -1]

\* new Map()
NoLimits == [u \in Users |-> NoEntry]

cleanupRateLimitMap(map, t) ==
    [u \in Users |-> IF map[u] # NoEntry /\ t > map[u].resetAt THEN NoEntry ELSE map[u]]

Limit(allowed, map) == [allowed |-> allowed, map |-> map]

\* variant: an event is refused only once the counter has passed the limit
checkRateLimit_Past(map, userId, t) ==
    LET entry == map[userId]
    IN  IF userId = "" THEN Limit(FALSE, map)
        ELSE IF entry = NoEntry \/ t > entry.resetAt
        THEN Limit(TRUE, [map EXCEPT ![userId] =
                             [count |-> 1, resetAt |-> t + RATE_LIMIT_WINDOW_MS]])
        ELSE IF entry.count > RATE_LIMIT_MAX THEN Limit(FALSE, map)
        ELSE Limit(TRUE, [map EXCEPT ![userId].count = @ + 1])

checkRateLimit(map, userId, t) ==
    LET size == Cardinality({u \in Users : map[u] # NoEntry})
        m == IF size >= MAX_RATE_LIMIT_ENTRIES THEN cleanupRateLimitMap(map, t) ELSE map
        entry == m[userId]
    IN  IF userId = "" THEN Limit(FALSE, map)
        ELSE IF entry = NoEntry \/ t > entry.resetAt
        THEN Limit(TRUE, [m EXCEPT ![userId] =
                             [count |-> 1, resetAt |-> t + RATE_LIMIT_WINDOW_MS]])
        ELSE IF entry.count >= RATE_LIMIT_MAX THEN Limit(FALSE, m)
        ELSE Limit(TRUE, [m EXCEPT ![userId].count = @ + 1])

----------------------------------------------------------------------------
(* Webhook: the synchronous part of the events handler.  It answers the    *)
(* request and hands the processing to waitUntil as a background task.     *)

\* no request answered yet, no task registered
Idle == [response |-> 0, responses |-> 0, tasks |-> <<>>]

\* res.status(code).json(...)
Respond(w, code) == [w EXCEPT !.response = code, !.responses = @ + 1]

\* waitUntil(promise): the task, and whether the request was answered by then
waitUntil(w, event) ==
    [w EXCEPT !.tasks = Append(@, [event |-> event, acked |-> w.response # 0])]

Routed(handled, w, map) == [handled |-> handled, webhook |-> w, map |-> map]

\* variant: the processing is started before the request is answered
handleMessageEvent_ProcessFirst(w, map, event, t) ==
    LET limit == checkRateLimit(map, event.user, t)
    IN  IF event.type # "message" \/ ~event.plain THEN Routed(FALSE, w, map)
        ELSE IF event.user # "" /\ ~limit.allowed
        THEN Routed(TRUE, Respond(w, 200), limit.map)
        ELSE Routed(TRUE, Respond(waitUntil(w, event), 200),
                    IF event.user # "" THEN limit.map ELSE map)

handleMessageEvent(w, map, event, t) ==
    LET limit == checkRateLimit(map, event.user, t)
    IN  IF event.type # "message" \/ ~event.plain THEN Routed(FALSE, w, map)
        ELSE IF event.user # "" /\ ~limit.allowed
        THEN Routed(TRUE, Respond(w, 200), limit.map)
        ELSE Routed(TRUE, waitUntil(Respond(w, 200), event),
                    IF event.user # "" THEN limit.map ELSE map)

handleReactionEvent(w, map, event) ==
    IF event.reaction = "" \/ event.ts = "" THEN Routed(FALSE, w, map)
    ELSE IF event.type \in {"reaction_added", "reaction_removed"}
    THEN Routed(TRUE, waitUntil(Respond(w, 200), event), map)
    ELSE Routed(FALSE, Respond(w, 200), map)

\* what can be wrong with a request before its event is looked at
RequestChecks ==
    {"ok", "tooLarge", "badJson", "challenge", "noSecret", "noHeaders", "expired",
     "badSignature", "noEvent"}

RejectionCode(check) ==
    CASE check = "tooLarge" -> 413
      [] check = "badJson" -> 400
      [] check = "noSecret" -> 500
      [] check \in {"noHeaders", "expired", "badSignature"} -> 401
      [] OTHER -> 200

\* the events handler, from the request to its return
handler(w, map, check, event, t) ==
    LET fresh == [w EXCEPT !.response = 0, !.responses = 0]
        message == handleMessageEvent(fresh, map, event, t)
        reaction == handleReactionEvent(fresh, map, event)
    IN  IF check # "ok" THEN Routed(TRUE, Respond(fresh, RejectionCode(check)), map)
        ELSE IF message.handled THEN message
        ELSE IF reaction.handled THEN reaction
        ELSE Routed(TRUE, Respond(reaction.webhook, 200), map)

----------------------------------------------------------------------------
(* State machine *)

CaptureSymbols == {DeleteMarker, "eyes"}    \* reactions of the capture specification
StatusSymbols == {DoneMarker, "eyes"}       \* reactions of the status specification
Channels == {Channel, ""}

NoEvent == [type |-> "init", ts |-> "", thread |-> "", what |-> ""]

\* the record of a handler run: the event and how the run ended
Ran(ev, outcome) == [ev |-> ev, outcome |-> outcome]

Appends(page) == (Len(page.content) - 1) \div 2

WithinBounds(st) ==
    /\ Len(st) <= MaxNotes
    /\ \A i \in 1..Len(st) : Appends(st[i]) <= MaxAppends

Handled(r, ev) ==
    /\ WithinBounds(r.store)
    /\ store' = r.store
    /\ sent' = r.sent
    /\ last' = Ran(ev, r.outcome)
    /\ UNCHANGED <<now, probe, service, rateLimitMap, webhook>>

NewMessage(ts, raw, fault) ==
    Handled(processMessage(store, ts, raw, fault),
            [type |-> "message", ts |-> ts, thread |-> "",
             what |-> classifyMessageWithIntent(MsgText(ts), raw).intent])

ThreadReply(ts, threadTs, raw, fault) ==
    Handled(processThreadReply(store, ts, threadTs, raw, fault),
            [type |-> "reply", ts |-> ts, thread |-> threadTs,
             what |-> classifyMessageWithIntent(MsgText(ts), raw).intent])

ReactionAdded(reaction, ts, channel, fault) ==
    Handled(handleReactionAdded(store, reaction, ts, channel, fault),
            [type |-> "reaction_added", ts |-> ts, thread |-> "", what |-> reaction])

ReactionRemoved(reaction, ts, channel, fetched, raw, fault) ==
    Handled(handleReactionRemoved(store, reaction, ts, channel, fetched, raw, fault),
            [type |-> "reaction_removed", ts |-> ts, thread |-> "", what |-> reaction])

Cron(authorized, fault) ==
    Handled(cronHandler(store, authorized, fault, now, service),
            [type |-> "cron", ts |-> "", thread |-> "",
             what |-> IF authorized THEN "authorized" ELSE "unauthorized"])

\* the user changes a page's Status select in Notion
ExternalEdit(pageId, status) ==
    /\ ~store[pageId].archived
    /\ store[pageId].status # status
    /\ store' = SetStatus(store, pageId, status)
    /\ sent' = <<>>
    /\ last' = Ran([type |-> "edit", ts |-> store[pageId].slackMessageId, thread |-> "",
                    what |-> status], "edited")
    /\ UNCHANGED <<now, probe, service, rateLimitMap, webhook>>

\* time passes
Tick(hours) ==
    /\ now + hours <= MaxNow
    /\ now' = now + hours
    /\ sent' = <<>>
    /\ last' = Ran([type |-> "tick", ts |-> "", thread |-> "", what |-> ""], "ticked")
    /\ UNCHANGED <<store, probe, service, rateLimitMap, webhook>>

----------------------------------------------------------------------------
\* the router never calls the reminder service
Init ==
    /\ store = <<>>
    /\ sent = <<>>
    /\ last = Ran(NoEvent, "init")
    /\ now = 0
    /\ probe = 0
    /\ service = "daily"
    /\ rateLimitMap = NoLimits
    /\ webhook = Idle

Next ==
    \/ \E ts \in Msgs \cup {BlankMsg}, raw \in RawResponses, fault \in RouterFaults :
          NewMessage(ts, raw, fault)
    \/ \E ts \in ReplyIds, threadTs \in Msgs, raw \in RawResponses, fault \in RouterFaults :
          ThreadReply(ts, threadTs, raw, fault)
    \/ \E reaction \in CaptureSymbols, ts \in Msgs, channel \in Channels,
          fault \in RouterFaults :
          ReactionAdded(reaction, ts, channel, fault)
    \/ \E reaction \in CaptureSymbols, ts \in Msgs, channel \in Channels,
          fetched \in BOOLEAN, fault \in RouterFaults :
          \E raw \in IF fetched THEN RawResponses ELSE {NoResponse} :
             ReactionRemoved(reaction, ts, channel, fetched, raw, fault)

Spec == Init /\ [][Next]_vars

----------------------------------------------------------------------------
(* Capture specification: top-level messages with and without links, each  *)
(* run with one answer of the classifier and at most one failing call;     *)
(* probe keeps the answer and the failure the last run was given.          *)

\* "create": the duplicate query answers and pages.create throws
CaptureFaults == RouterFaults \cup {"create", "reactFalse", "replyFalse"}

Capture(ts, raw, fault) ==
    LET r == processMessage(store, ts, raw, fault)
    IN  /\ WithinBounds(r.store)
        /\ store' = r.store
        /\ sent' = r.sent
        /\ last' = Ran([type |-> "message", ts |-> ts, thread |-> "",
                        what |-> classifyMessageWithIntent(MsgText(ts), raw).intent],
                       r.outcome)
        /\ probe' = [raw |-> raw, fault |-> fault]
        /\ UNCHANGED <<now, service, rateLimitMap, webhook>>

CaptureInit ==
    /\ store = <<>>
    /\ sent = <<>>
    /\ last = Ran(NoEvent, "init")
    /\ now = 0
    /\ probe = [raw |-> NoResponse, fault |-> "none"]
    /\ service = "daily"
    /\ rateLimitMap = NoLimits
    /\ webhook = Idle

CaptureNext ==
    \E ts \in Msgs \cup {BlankMsg}, raw \in RawResponses, fault \in CaptureFaults :
       Capture(ts, raw, fault)

CaptureSpec == CaptureInit /\ [][CaptureNext]_vars

----------------------------------------------------------------------------
(* Data the seeded specifications start from *)

Statuses == {"Open", "Done", "Parked"}

NoteClassifications ==
    {c \in {classifyMessageWithIntent("A", raw) : raw \in RawResponses} : c.intent = "note"}

WithAction == CHOOSE c \in NoteClassifications : c.nextAction # ""
WithoutAction == CHOOSE c \in NoteClassifications : c.nextAction = ""

----------------------------------------------------------------------------
(* Triage specification: top-level messages classified with every answer   *)
(* of ClassifierResponses; probe keeps the answer the last run was given.  *)

Triage(ts, raw, fault) ==
    LET r == processMessage(store, ts, raw, fault)
    IN  /\ WithinBounds(r.store)
        /\ store' = r.store
        /\ sent' = r.sent
        /\ last' = Ran([type |-> "message", ts |-> ts, thread |-> "",
                        what |-> classifyMessageWithIntent(MsgText(ts), raw).intent],
                       r.outcome)
        /\ probe' = raw
        /\ UNCHANGED <<now, service, rateLimitMap, webhook>>

TriageInit ==
    /\ store = <<>>
    /\ sent = <<>>
    /\ last = Ran(NoEvent, "init")
    /\ now = 0
    /\ probe = NoResponse
    /\ service = "daily"
    /\ rateLimitMap = NoLimits
    /\ webhook = Idle

\* one message, delivered any number of times, and a blank one
TriageMsgs == {"m1", BlankMsg}

TriageNext ==
    \E ts \in TriageMsgs, raw \in ClassifierResponses, fault \in RouterFaults :
       Triage(ts, raw, fault)

TriageSpec == TriageInit /\ [][TriageNext]_vars

----------------------------------------------------------------------------
(* Thread specification: one captured note, in any status, and replies in  *)
(* its thread and in the thread of a message that is no note; probe keeps  *)
(* the texts of the note-intent replies processed against the note, in     *)
(* processing order.                                                       *)

ThreadReplyIds == {"r1", "r2"}

\* the reply is classified as a note, the parent is tracked, and no store
\* call fails
ProcessedAsNote(st, ts, threadTs, raw, fault) ==
    /\ Trim(MsgText(ts)) # ""
    /\ classifyMessageWithIntent(Trim(MsgText(ts)), raw).intent = "note"
    /\ findEntryBySlackMessageId(st, threadTs) # 0
    /\ fault # "store"

Reply(ts, threadTs, raw, fault) ==
    LET r == processThreadReply(store, ts, threadTs, raw, fault)
    IN  /\ WithinBounds(r.store)
        /\ store' = r.store
        /\ sent' = r.sent
        /\ last' = Ran([type |-> "reply", ts |-> ts, thread |-> threadTs,
                        what |-> classifyMessageWithIntent(MsgText(ts), raw).intent],
                       r.outcome)
        /\ probe' = IF ProcessedAsNote(store, ts, threadTs, raw, fault)
                    THEN Append(probe, Trim(MsgText(ts))) ELSE probe
        /\ UNCHANGED <<now, service, rateLimitMap, webhook>>

ThreadInit ==
    /\ store \in { SetStatus(createNotionEntry(<<>>, NewEntry(MsgText("m1"), "m1", c)),
                             1, status) : c \in NoteClassifications, status \in Statuses }
    /\ sent = <<>>
    /\ last = Ran(NoEvent, "init")
    /\ now = 0
    /\ probe = <<>>
    /\ service = "daily"
    /\ rateLimitMap = NoLimits
    /\ webhook = Idle

ThreadNext ==
    \E ts \in ThreadReplyIds, threadTs \in Msgs, raw \in RawResponses,
       fault \in RouterFaults :
       Reply(ts, threadTs, raw, fault)

ThreadSpec == ThreadInit /\ [][ThreadNext]_vars

----------------------------------------------------------------------------
(* Status specification: two captured notes, their status changed by       *)
(* reactions and in Notion and mirrored by the cron handler; the clock     *)
(* stands still.                                                           *)

Captured(c1, c2) ==
    createNotionEntry(createNotionEntry(<<>>, NewEntry(MsgText("m1"), "m1", c1)),
                      NewEntry(MsgText("m2"), "m2", c2))

SyncInit ==
    /\ store \in {Captured(c1, c2) : c1, c2 \in NoteClassifications}
    /\ sent = <<>>
    /\ last = Ran(NoEvent, "init")
    /\ now = 0
    /\ probe = 0
    /\ service \in ReminderServices
    /\ rateLimitMap = NoLimits
    /\ webhook = Idle

SyncNext ==
    \/ \E authorized \in BOOLEAN, fault \in CronFaults : Cron(authorized, fault)
    \/ \E pageId \in 1..Len(store), status \in Statuses : ExternalEdit(pageId, status)
    \/ \E reaction \in StatusSymbols, ts \in Msgs, channel \in Channels,
          fault \in RouterFaults :
          ReactionAdded(reaction, ts, channel, fault)
    \/ \E reaction \in StatusSymbols, ts \in Msgs, channel \in Channels,
          fault \in RouterFaults :
          ReactionRemoved(reaction, ts, channel, TRUE, NoResponse, fault)

SyncSpec == SyncInit /\ [][SyncNext]_vars

----------------------------------------------------------------------------
(* Mirror specification: one captured note in any status, mirrored or not, *)
(* under messages, thread replies, done-marker reactions and cron runs.    *)

Seeded(c, status, synced) ==
    updateSyncedStatus(
        SetStatus(createNotionEntry(<<>>, NewEntry(MsgText("m1"), "m1", c)), 1, status),
        1, synced)

MirrorInit ==
    /\ store \in { Seeded(WithAction, status, synced) :
                    status \in Statuses, synced \in {"Open", "Done"} }
    /\ sent = <<>>
    /\ last = Ran(NoEvent, "init")
    /\ now = 0
    /\ probe = 0
    /\ service \in ReminderServices
    /\ rateLimitMap = NoLimits
    /\ webhook = Idle

MirrorNext ==
    \/ \E ts \in Msgs, raw \in RawResponses, fault \in RouterFaults :
          NewMessage(ts, raw, fault)
    \/ \E ts \in ReplyIds, raw \in RawResponses, fault \in RouterFaults :
          ThreadReply(ts, "m1", raw, fault)
    \/ \E reaction \in StatusSymbols, ts \in Msgs, channel \in Channels,
          fault \in RouterFaults :
          ReactionAdded(reaction, ts, channel, fault)
    \/ \E reaction \in StatusSymbols, ts \in Msgs, channel \in Channels,
          fault \in RouterFaults :
          ReactionRemoved(reaction, ts, channel, TRUE, NoResponse, fault)
    \/ \E authorized \in BOOLEAN, fault \in CronFaults : Cron(authorized, fault)

MirrorSpec == MirrorInit /\ [][MirrorNext]_vars

----------------------------------------------------------------------------
(* Restore specification: one captured note in any status, mirrored or     *)
(* not, under reactions with every symbol, added and removed, and replies  *)
(* in its thread.                                                          *)

Symbols == {DoneMarker, DeleteMarker, "eyes"}

RestoreInit ==
    /\ store \in { Seeded(WithAction, status, synced) :
                    status \in Statuses, synced \in {"Open", "Done"} }
    /\ sent = <<>>
    /\ last = Ran(NoEvent, "init")
    /\ now = 0
    /\ probe = 0
    /\ service = "daily"
    /\ rateLimitMap = NoLimits
    /\ webhook = Idle

RestoreNext ==
    \/ \E ts \in ReplyIds, raw \in RawResponses, fault \in RouterFaults :
          ThreadReply(ts, "m1", raw, fault)
    \/ \E reaction \in Symbols, ts \in Msgs, channel \in Channels, fault \in RouterFaults :
          ReactionAdded(reaction, ts, channel, fault)
    \/ \E reaction \in Symbols, ts \in Msgs, channel \in Channels,
          fetched \in BOOLEAN, fault \in RouterFaults :
          \E raw \in IF fetched THEN RawResponses ELSE {NoResponse} :
             ReactionRemoved(reaction, ts, channel, fetched, raw, fault)

RestoreSpec == RestoreInit /\ [][RestoreNext]_vars

----------------------------------------------------------------------------
(* Batch specification: a database of up to MaxBatch notes, every one of   *)
(* them both due a reminder and drifted (reopened in Notion after Done was *)
(* mirrored), and cron runs over it.                                       *)

\* note k of the backlog: its message id is the number k as a string
Waiting(k) ==
    [buildNotionProperties(NewEntry("A", ToString(k), WithAction))
       EXCEPT !.syncedStatus = "Done"]

Backlog(n) == [k \in 1..n |-> Waiting(k)]

BatchFaults ==
    {NoFault} \cup {[pass |-> p, at |-> "", kind |-> "query"] : p \in {"reminders", "sync"}}

\* the CRON_SECRET of the deployment ("" when not configured) and the
\* Authorization header of a request ("" when absent)
CronSecrets == {"", "s3cret"}
AuthHeaders == {"", "Bearer ", "Bearer s3cret", "Bearer other"}

Bearer(cronSecret) == "Bearer " \o cronSecret

\* variant: without a configured secret every request is let through
Authorized_IfConfigured(cronSecret, authHeader) ==
    ~(cronSecret # "" /\ authHeader # Bearer(cronSecret))

Authorized(cronSecret, authHeader) ==
    ~(cronSecret = "" \/ authHeader # Bearer(cronSecret))

BatchRun(cronSecret, authHeader, fault) ==
    LET authorized == Authorized(cronSecret, authHeader)
        r == cronHandler(store, authorized, fault, now, service)
    IN  /\ store' = r.store
        /\ sent' = r.sent
        /\ last' = Ran([type |-> "cron", ts |-> "", thread |-> "",
                        what |-> IF authorized THEN "authorized" ELSE "unauthorized"],
                       r.outcome)
        /\ probe' = [cronSecret |-> cronSecret, authHeader |-> authHeader]
        /\ UNCHANGED <<now, service, rateLimitMap, webhook>>

BatchInit ==
    /\ store \in {Backlog(n) : n \in 0..MaxBatch}
    /\ sent = <<>>
    /\ last = Ran(NoEvent, "init")
    /\ now = 0
    /\ probe = [cronSecret |-> "", authHeader |-> ""]
    /\ service \in ReminderServices
    /\ rateLimitMap = NoLimits
    /\ webhook = Idle

BatchNext ==
    \E cronSecret \in CronSecrets, authHeader \in AuthHeaders, fault \in BatchFaults :
        BatchRun(cronSecret, authHeader, fault)

BatchSpec == BatchInit /\ [][BatchNext]_vars

----------------------------------------------------------------------------
(* Webhook specification: requests arrive at the events handler, which     *)
(* answers them and registers background tasks; the tasks run afterwards.  *)
(* probe follows, per user, the window of admissions (when its first       *)
(* admitted event came and how many were admitted since), and keeps whose  *)
(* message the last request carried and whether a task was registered.     *)

WebhookEvents ==
    { [type |-> "message", user |-> u, ts |-> "m1", reaction |-> "", plain |-> TRUE] :
          u \in Users \cup {""} }
    \cup { [type |-> ty, user |-> "U1", ts |-> "m1", reaction |-> DoneMarker,
            plain |-> FALSE] : ty \in {"reaction_added", "reaction_removed"} }
    \cup { [type |-> "message", user |-> "U1", ts |-> "m1", reaction |-> "",
            plain |-> FALSE],
           [type |-> "reaction_added", user |-> "U1", ts |-> "m1", reaction |-> "",
            plain |-> FALSE],
           [type |-> "member_joined", user |-> "U1", ts |-> "", reaction |-> "",
            plain |-> FALSE],
           [type |-> "star_added", user |-> "U1", ts |-> "m1", reaction |-> DoneMarker,
            plain |-> FALSE] }

\* the event of a request that is turned away before its event is read
Unread == [type |-> "", user |-> "", ts |-> "", reaction |-> "", plain |-> FALSE]

\* the classifier's answer while background tasks run
NoteResponse == CHOOSE raw \in RawResponses : raw.intent = "note" /\ raw.isMeaningful

NoWindow == [opened |-> -1, admitted |-> 0]

\* the window of the claim after one more event of the user was admitted
Admit(window, t) ==
    IF window = NoWindow \/ t > window.opened + RATE_LIMIT_WINDOW_MS
    THEN [opened |-> t, admitted |-> 1]
    ELSE [window EXCEPT !.admitted = @ + 1]

Receive(check, event) ==
    LET r == handler(webhook, rateLimitMap, check, event, now)
        queued == Len(r.webhook.tasks) > Len(webhook.tasks)
    IN  /\ Len(r.webhook.tasks) <= MaxTasks
        /\ webhook' = r.webhook
        /\ rateLimitMap' = r.map
        /\ probe' = [windows |-> IF queued /\ event.type = "message" /\ event.user # ""
                                 THEN [probe.windows EXCEPT ![event.user] = Admit(@, now)]
                                 ELSE probe.windows,
                     asked |-> IF event.type = "message" /\ event.plain
                               THEN event.user ELSE "",
                     queued |-> queued]
        /\ UNCHANGED <<store, sent, last, now, service>>

\* the background task registered first runs to its end
RunTask ==
    /\ webhook.tasks # <<>>
    /\ LET event == Head(webhook.tasks).event
           r == CASE event.type = "message" ->
                       processMessage(store, event.ts, NoteResponse, "none")
                  [] event.type = "reaction_added" ->
                       handleReactionAdded(store, event.reaction, event.ts, Channel, "none")
                  [] OTHER ->
                       handleReactionRemoved(store, event.reaction, event.ts, Channel,
                                             TRUE, NoteResponse, "none")
       IN  /\ WithinBounds(r.store)
           /\ store' = r.store
           /\ sent' = r.sent
           /\ last' = Ran([type |-> event.type, ts |-> event.ts, thread |-> "",
                           what |-> event.reaction], r.outcome)
    /\ webhook' = [webhook EXCEPT !.tasks = Tail(@)]
    /\ UNCHANGED <<now, probe, service, rateLimitMap>>

Elapse(ms) ==
    /\ now + ms <= MaxClock
    /\ now' = now + ms
    /\ UNCHANGED <<store, sent, last, probe, service, rateLimitMap, webhook>>

WebhookInit ==
    /\ store = <<>>
    /\ sent = <<>>
    /\ last = Ran(NoEvent, "init")
    /\ now = 0
    /\ probe = [windows |-> [u \in Users |-> NoWindow], asked |-> "", queued |-> FALSE]
    /\ service = "daily"
    /\ rateLimitMap = NoLimits
    /\ webhook = Idle

WebhookNext ==
    \/ \E check \in RequestChecks :
          \E event \in IF check = "ok" THEN WebhookEvents ELSE {Unread} :
             Receive(check, event)
    \/ RunTask
    \/ \E ms \in {RATE_LIMIT_WINDOW_MS, RATE_LIMIT_WINDOW_MS + 1} : Elapse(ms)

WebhookSpec == WebhookInit /\ [][WebhookNext]_vars

----------------------------------------------------------------------------
(* Race specification: up to MaxDeliveries invocations of the router run   *)
(* at once, each advancing from one awaited store call to the next.  The   *)
(* tasks of webhook carry each invocation's position (pc), the page it     *)
(* found and the content it read.  Every message and reply is classified   *)
(* as a meaningful note.                                                   *)

Delivery(kind, ts, thread) ==
    [kind |-> kind, ts |-> ts, thread |-> thread, acked |-> TRUE,
     pc |-> IF kind = "message" THEN "check" ELSE "find", page |-> 0, content |-> <<>>]

Deliveries ==
    {Delivery("message", "m1", ""), Delivery("reply", "r1", "m1"),
     Delivery("reply", "r2", "m1")}

At(k, pc) == k \in 1..Len(webhook.tasks) /\ webhook.tasks[k].pc = pc

Moved(k, task) == webhook' = [webhook EXCEPT !.tasks[k] = task]

\* processMessage up to the answer of isDuplicate
CheckDuplicate(k) ==
    /\ At(k, "check")
    /\ LET task == webhook.tasks[k]
           duplicate == isDuplicate(store, task.ts)
       IN  /\ Moved(k, [task EXCEPT !.pc = IF duplicate THEN "done" ELSE "create"])
           /\ last' = IF duplicate
                      THEN Ran([type |-> "message", ts |-> task.ts, thread |-> "",
                                what |-> "note"], "duplicate")
                      ELSE last
    /\ sent' = <<>>
    /\ UNCHANGED <<store, now, probe, service, rateLimitMap>>

\* processMessage from createNotionEntry to its end
CreateNote(k) ==
    /\ At(k, "create")
    /\ LET task == webhook.tasks[k]
           text == Trim(MsgText(task.ts))
           c == classifyMessageWithIntent(text, NoteResponse)
       IN  /\ store' = createNotionEntry(store, NewEntry(text, task.ts, c))
           /\ sent' = <<addSlackReaction(task.ts), postSlackReply(task.ts, buildReplyText(c))>>
           /\ Moved(k, [task EXCEPT !.pc = "done"])
           /\ last' = Ran([type |-> "message", ts |-> task.ts, thread |-> "",
                           what |-> "note"], "created")
    /\ UNCHANGED <<now, probe, service, rateLimitMap>>

\* processThreadReply up to the answer of findEntryBySlackMessageId
FindParent(k) ==
    /\ At(k, "find")
    /\ LET task == webhook.tasks[k]
           parentEntry == findEntryBySlackMessageId(store, task.thread)
       IN  /\ Moved(k, IF parentEntry = 0 THEN [task EXCEPT !.pc = "done"]
                       ELSE [task EXCEPT !.pc = "read", !.page = parentEntry])
           /\ last' = IF parentEntry = 0
                      THEN Ran([type |-> "reply", ts |-> task.ts, thread |-> task.thread,
                                what |-> "note"], "noparent")
                      ELSE last
    /\ sent' = <<>>
    /\ UNCHANGED <<store, now, probe, service, rateLimitMap>>

\* appendToNotionEntry up to the answer of pages.retrieve
ReadContent(k) ==
    /\ At(k, "read")
    /\ LET task == webhook.tasks[k]
       IN  Moved(k, [task EXCEPT !.pc = "write",
                                 !.content = retrieveContent(store, task.page)])
    /\ sent' = <<>>
    /\ UNCHANGED <<store, last, now, probe, service, rateLimitMap>>

\* appendToNotionEntry from pages.update, and processThreadReply to its end
WriteContent(k) ==
    /\ At(k, "write")
    /\ LET task == webhook.tasks[k]
       IN  /\ store' = updateContent(store, task.page, task.content,
                                     Trim(MsgText(task.ts)))
           /\ sent' = <<addSlackReaction(task.ts)>>
           /\ Moved(k, [task EXCEPT !.pc = "done"])
           /\ last' = Ran([type |-> "reply", ts |-> task.ts, thread |-> task.thread,
                           what |-> "note"], "appended")
    /\ UNCHANGED <<now, probe, service, rateLimitMap>>

RaceInit ==
    /\ store \in {<<>>, createNotionEntry(<<>>, NewEntry(MsgText("m1"), "m1", WithAction))}
    /\ sent = <<>>
    /\ last = Ran(NoEvent, "init")
    /\ now = 0
    /\ probe = 0
    /\ service = "daily"
    /\ rateLimitMap = NoLimits
    /\ webhook \in {[response |-> 200, responses |-> 1, tasks |-> tasks] :
                       tasks \in UNION {[1..n -> Deliveries] : n \in 1..MaxDeliveries}}

RaceNext ==
    \E k \in 1..MaxDeliveries :
       \/ CheckDuplicate(k)
       \/ CreateNote(k)
       \/ FindParent(k)
       \/ ReadContent(k)
       \/ WriteContent(k)

RaceSpec == RaceInit /\ [][RaceNext]_vars

----------------------------------------------------------------------------
(* Reminder specification: a note with a next action and some reminders    *)
(* behind it, next to a note without one; time passes between cron runs.   *)

TickHours == {oneDay, oneWeek}

ReminderSeeds == {0, 2, 8}   \* Reminder Count the database holds at the start

Reminded(st, pageId, count) ==
    IF count = 0 THEN st ELSE updateLastReminder(st, pageId, count - 1, 0).store

RemindInit ==
    /\ store \in {Reminded(Captured(WithAction, WithoutAction), 1, n) : n \in ReminderSeeds}
    /\ sent = <<>>
    /\ last = Ran(NoEvent, "init")
    /\ now = 0
    /\ probe = 0
    /\ service \in ReminderServices
    /\ rateLimitMap = NoLimits
    /\ webhook = Idle

RemindNext ==
    \/ \E authorized \in BOOLEAN, fault \in CronFaults : Cron(authorized, fault)
    \/ \E pageId \in 1..Len(store), status \in Statuses : ExternalEdit(pageId, status)
    \/ \E hours \in TickHours : Tick(hours)

RemindSpec == RemindInit /\ [][RemindNext]_vars

----------------------------------------------------------------------------
(* Properties of the capture specification (Spec) *)

Live(st) == {i \in 1..Len(st) : ~st[i].archived}

LiveWithId(st, id) == {i \in Live(st) : st[i].slackMessageId = id}

\* the handler that just ran handled the same event as the one before it
SameEventAgain == last'.ev = last.ev

\* C1: at every moment no two non-archived notes carry the same
\* externalMessageId.
C1_UniqueExternalId ==
    \A i, j \in Live(store) :
        store[i].slackMessageId = store[j].slackMessageId => i = j

\* C2: when the same note-intent NewMessage is handled a second time right
\* after the delivery that created its note, the second run creates no note,
\* sends no acknowledgement reaction and no reply, and exactly one note for
\* the message exists.
C2_SecondDeliveryCreatesNothing ==
    [][ ( /\ last'.ev.type = "message" /\ last'.ev.what = "note"
          /\ SameEventAgain
          /\ last.outcome \in {"created", "createdThenError"} )
        => ( /\ store' = store
             /\ sent' = <<>>
             /\ Cardinality(LiveWithId(store', last'.ev.ts)) = 1 ) ]_vars

C2_Witness ==
    /\ last.ev.type = "message" /\ last.ev.what = "note"
    /\ last.outcome = "duplicate"
    /\ sent = <<>>
    /\ Cardinality(LiveWithId(store, last.ev.ts)) = 1

\* C3: handling the same note-intent ThreadReply a second time, right after
\* the delivery that appended it, leaves every note as the first delivery
\* left it.
C3_SecondReplyChangesNothing ==
    [][ ( /\ last'.ev.type = "reply" /\ last'.ev.what = "note"
          /\ SameEventAgain
          /\ last.outcome = "appended" )
        => store' = store ]_vars

\* C4: a message or thread reply classified as noise or as a question
\* creates no note and changes no note's content, status or category; a
\* noise message sends nothing.
C4_NoiseAndQuestionsLeaveNotes ==
    [][ ( /\ last'.ev.type \in {"message", "reply"}
          /\ last'.ev.what \in {"noise", "question"}
          /\ vars' # vars )
        => ( /\ Len(store') = Len(store)
             /\ \A i \in 1..Len(store) :
                   /\ store'[i].content = store[i].content
                   /\ store'[i].status = store[i].status
                   /\ store'[i].category = store[i].category
                   /\ store'[i].archived = store[i].archived
             /\ (last'.ev.what = "noise" => sent' = <<>>) ) ]_vars

C4_Witness ==
    /\ last.ev.type = "reply" /\ last.ev.what = "noise"
    /\ findEntryBySlackMessageId(store, last.ev.thread) # 0
    /\ last.outcome = "noise"
    /\ sent = <<>>

----------------------------------------------------------------------------
(* Properties of the capture specification (CaptureSpec) *)

\* the sends are the acknowledgement reaction, then the reply, cut short
\* where a call threw
ReactionThenReply(out, ts) ==
    /\ Len(out) <= 2
    /\ Len(out) >= 1 => out[1].op = "react" /\ out[1].ts = ts
    /\ Len(out) = 2 => out[2].op = "reply" /\ out[2].ts = ts

\* C29: a top-level message without a note, classified as a meaningful
\* note, gets exactly one note with the classified category and next
\* action, the URLs extracted from its text, Status Open and Synced Status
\* Open; the acknowledgement reaction is called for only once the note is
\* created and the reply only after the reaction; when the store fails
\* neither is sent and no note exists.
C29_NoteThenReactionThenReply ==
    [][ LET ts == last'.ev.ts
            text == Trim(MsgText(ts))
            c == classifyMessageWithIntent(text, probe'.raw)
            failed == probe'.fault \in {"store", "create"}
        IN  ( /\ last'.ev.type = "message" /\ vars' # vars
              /\ text # "" /\ c.intent = "note" /\ c.isMeaningful
              /\ ~isDuplicate(store, ts) )
            => /\ ~failed =>
                    /\ Len(store') = Len(store) + 1
                    /\ SubSeq(store', 1, Len(store)) = store
                    /\ store'[Len(store')].slackMessageId = ts
                    /\ store'[Len(store')].category = c.category
                    /\ store'[Len(store')].nextAction = c.nextAction
                    /\ store'[Len(store')].urls = extractUrls(MsgTokens(text))
                    /\ store'[Len(store')].status = "Open"
                    /\ store'[Len(store')].syncedStatus = "Open"
                    /\ ReactionThenReply(sent', ts)
                    /\ probe'.fault \in {"none", "reactFalse", "replyFalse"} => Len(sent') = 2
               /\ failed => store' = store /\ sent' = <<>> ]_vars

\* the message with a link was captured: its note holds the link once, and
\* the reaction and the reply were sent in that order
C29_Witness ==
    /\ last.ev.type = "message" /\ last.ev.ts = "m2" /\ last.outcome = "created"
    /\ probe.fault = "none"
    /\ store[Len(store)].slackMessageId = "m2"
    /\ store[Len(store)].urls = <<"https://b.com">>
    /\ store[Len(store)].nextAction = "act"
    /\ Len(sent) = 2 /\ sent[1].op = "react" /\ sent[2].op = "reply"

----------------------------------------------------------------------------
(* Properties of the triage specification (TriageSpec) *)

\* the run that just ended persisted a note
Persisted == last.ev.type = "message" /\ last.outcome \in {"created", "createdThenError"}

Newest == store[Len(store)]

C14_SubcategoryIffAreas ==
    \A i \in 1..Len(store) :
        (store[i].subcategory # "") <=> (store[i].category = "Areas")

----------------------------------------------------------------------------
(* Properties of the thread specification (ThreadSpec) *)

\* A, separator, t1, ..., separator, tn
RECURSIVE Joined(_, _)
Joined(first, texts) ==
    IF texts = <<>> THEN <<first>>
    ELSE Joined(first, SubSeq(texts, 1, Len(texts) - 1))
         \o <<Separator, texts[Len(texts)]>>

\* C16: the content of a note created with content A, after the note-intent
\* thread replies t1..tn have been processed against it in that order, is
\* A, separator, t1, separator, ..., separator, tn.
C16_ContentIsJoinedReplies ==
    store[1].content = Joined(MsgText("m1"), probe)

C16_Witness ==
    /\ probe = <<"y", "x">>
    /\ store[1].content = <<"A", Separator, "y", Separator, "x">>

\* C17: processing a thread reply, whatever its classification and however
\* the run ends, leaves the number of notes and every field of every note
\* other than its content as they were.
C17_RepliesOnlyTouchContent ==
    [][ last'.ev.type = "reply" =>
          /\ Len(store') = Len(store)
          /\ \A i \in 1..Len(store) :
                [store'[i] EXCEPT !.content = store[i].content] = store[i] ]_vars

\* a reply was appended to a note that is Done and was filed by the
\* classifier's fallback
C17_Witness ==
    /\ last.ev.type = "reply" /\ last.outcome = "appended"
    /\ Len(store) = 1
    /\ store[1].status = "Done" /\ store[1].category = "Uncategorized"
    /\ store[1].content = <<"A", Separator, "x">>

\* the live notes that carry a message id
NotesOf(st, ts) ==
    {i \in 1..Len(st) : ~st[i].archived /\ st[i].slackMessageId = ts}

\* C31: a thread reply classified as a question is answered from the one
\* note that carries the parent's message id and from no other; when there
\* is none the fixed "not found" text is the reply and the model is not
\* called; either way every note stays as it was and none is added.
C31_ThreadQuestionReadsOneNote ==
    [][ ( last'.ev.type = "reply" /\ last'.ev.what = "question" ) =>
          LET a == ThreadAnswer(store, last'.ev.thread)
              found == NotesOf(store, last'.ev.thread)
          IN  /\ store' = store
              /\ \A k \in 1..Len(sent') :
                    /\ sent'[k].op = "reply" /\ sent'[k].ts = last'.ev.ts
                    /\ sent'[k].what = a.text
              /\ last'.outcome = "answered" => Len(sent') = 1
              /\ found = {} =>
                    ~a.invoked /\ a.notes = <<>> /\ a.text = "noteNotFound"
              /\ found # {} =>
                    /\ a.invoked /\ Len(a.notes) = 1
                    /\ a.notes[1].pageId \in found
                    /\ a.notes[1].content = store[a.notes[1].pageId].content ]_vars

\* a question in the thread of the captured message was answered from its
\* note, to which a reply had been appended before
C31_Witness ==
    /\ last.ev.type = "reply" /\ last.ev.what = "question" /\ last.ev.thread = "m1"
    /\ last.outcome = "answered"
    /\ Len(sent) = 1 /\ sent[1].what = "answer"
    /\ store[1].content = <<"A", Separator, "x">>

----------------------------------------------------------------------------
(* Properties of the status specification (SyncSpec) *)

SendsFor(out, ts, ops) == {k \in 1..Len(out) : out[k].ts = ts /\ out[k].op \in ops}

SyncOps == {"react", "unreact", "status"}

\* the cron handler ran to its end and every call it made succeeded
CleanRun(l, out) ==
    /\ l.ev.type = "cron" /\ l.outcome = "ok"
    /\ \A k \in 1..Len(out) : out[k].ok

DoneReaction(l, type) == l.ev.type = type /\ l.ev.what = DoneMarker

\* C5: when the done-marker is added to a note's message and then removed,
\* both handlers completing, the note's status is Open afterwards, whatever
\* it was before; and no done-marker reaction event, added or removed, changes
\* any note's syncedStatus.
C5_DoneRoundTrip ==
    [][ /\ ( ( /\ DoneReaction(last, "reaction_added") /\ last.outcome = "done"
               /\ DoneReaction(last', "reaction_removed") /\ last'.outcome = "reopened"
               /\ last'.ev.ts = last.ev.ts )
             => store'[findEntryBySlackMessageId(store, last'.ev.ts)].status = "Open" )
        /\ ( ( DoneReaction(last', "reaction_added") \/ DoneReaction(last', "reaction_removed") )
             => /\ Len(store') = Len(store)
                /\ \A i \in 1..Len(store) : store'[i].syncedStatus = store[i].syncedStatus )
      ]_vars

C5_Witness ==
    /\ DoneReaction(last, "reaction_removed") /\ last.outcome = "reopened"
    /\ \E i \in Live(store) :
          /\ store[i].slackMessageId = last.ev.ts
          /\ store[i].status = "Open"
          /\ store[i].syncedStatus = "Done"

\* C6: a cron run in which every call succeeds sends, for each note that is
\* Done with syncedStatus Open, the done-marker reaction and a status message
\* and sets its syncedStatus to Done; the run that follows it with no event
\* in between sends nothing for that note and leaves it unchanged.
C6_DoneIsMirroredOnce ==
    [][ CleanRun(last', sent') =>
          \A i \in Live(store) :
             /\ ( store[i].status = "Done" /\ store[i].syncedStatus = "Open" )
                => /\ \E k \in SendsFor(sent', store[i].slackMessageId, {"react"}) :
                         sent'[k].what = DoneMarker
                   /\ SendsFor(sent', store[i].slackMessageId, {"status"}) # {}
                   /\ store'[i].syncedStatus = "Done"
             /\ ( /\ CleanRun(last, sent)
                  /\ store[i].status = "Done" /\ store[i].syncedStatus = "Done" )
                => /\ SendsFor(sent', store[i].slackMessageId, SyncOps \cup {"reminder"}) = {}
                   /\ store'[i] = store[i] ]_vars

\* C37: in any cron run, a drifted note for which a mirror operation (the
\* reaction call or the status message) reported failure keeps its
\* syncedStatus.
C37_FailedMirrorKeepsDrift ==
    [][ last'.ev.type = "cron" =>
          \A i \in Live(store) :
             ( /\ needsSync(store[i].status, store[i].syncedStatus)
               /\ \E k \in SendsFor(sent', store[i].slackMessageId, SyncOps) : ~sent'[k].ok )
             => store'[i].syncedStatus = store[i].syncedStatus ]_vars

\* C7: a cron run sends no reaction and no status message for, and leaves
\* the syncedStatus of, every note that is neither (Done with syncedStatus
\* other than Done) nor (Open with syncedStatus Done) -- Parked notes and
\* notes already in sync included.
C7_ReconcilerActsOnlyOnDrift ==
    [][ last'.ev.type = "cron" =>
          \A i \in 1..Len(store) :
             ~( \/ store[i].status = "Done" /\ store[i].syncedStatus # "Done"
                \/ store[i].status = "Open" /\ store[i].syncedStatus = "Done" )
             => /\ store'[i].syncedStatus = store[i].syncedStatus
                /\ SendsFor(sent', store[i].slackMessageId, SyncOps) = {} ]_vars

C7_Witness ==
    /\ CleanRun(last, sent)
    /\ \E i, j \in Live(store) :
          /\ store[i].status = "Parked" /\ store[i].syncedStatus = "Done"
          /\ SendsFor(sent, store[i].slackMessageId, SyncOps) = {}
          /\ store[j].status = "Done" /\ store[j].syncedStatus = "Done"
          /\ SendsFor(sent, store[j].slackMessageId, SyncOps) # {}

\* what a cron run leaves behind for a message it worked on in a pass: the
\* sends it made, or the error it logged
Attempted(out, ts, ops, pass) ==
    \E k \in 1..Len(out) :
       /\ out[k].ts = ts
       /\ out[k].op \in ops \/ (out[k].op = "error" /\ out[k].what = pass)

Drifted(page) ==
    \/ page.status = "Done" /\ page.syncedStatus # "Done"
    \/ page.status = "Open" /\ page.syncedStatus = "Done"

\* C21: in a cron run that reaches both passes, whatever call fails for one
\* note, every note that is Open with a next action and was never reminded
\* is attempted by the reminder pass and every drifted note by the status
\* pass.
C21_FailuresDoNotAbortTheBatch ==
    [][ ( last'.ev.type = "cron" /\ last'.outcome = "ok" ) =>
          \A i \in Live(store) :
             /\ ( /\ store[i].status = "Open" /\ store[i].nextAction # ""
                  /\ store[i].lastReminder = NoDate )
                => Attempted(sent', store[i].slackMessageId, {"reminder"}, "reminder")
             /\ Drifted(store[i])
                => Attempted(sent', store[i].slackMessageId, {"react", "unreact", "status"},
                             "sync") ]_vars

\* the reminder for one note failed and the reminder for the note after it
\* was delivered in the same run
C21_Witness ==
    /\ last.ev.type = "cron" /\ last.outcome = "ok"
    /\ \E k, l \in 1..Len(sent) :
          /\ k < l
          /\ sent[k].op = "error" /\ sent[k].what = "reminder"
          /\ sent[l].op = "reminder" /\ sent[l].ok
          /\ sent[l].ts # sent[k].ts

\* C12: a cron run sends no reminder for, and leaves the lastReminder and
\* reminderCount of, every note that is not Open or has no next action when
\* the run starts -- Done and Parked notes included.
C12_OnlyOpenActionsAreReminded ==
    [][ last'.ev.type = "cron" =>
          \A i \in 1..Len(store) :
             ( store[i].status # "Open" \/ store[i].nextAction = "" )
             => /\ SendsFor(sent', store[i].slackMessageId, {"reminder"}) = {}
                /\ store'[i].lastReminder = store[i].lastReminder
                /\ store'[i].reminderCount = store[i].reminderCount ]_vars

\* a run that reminded an Open note and passed over a Done or Parked note
\* that has a next action and was never reminded
C12_Witness ==
    /\ CleanRun(last, sent)
    /\ \E i, j \in Live(store) :
          /\ store[i].status \in {"Done", "Parked"} /\ store[i].nextAction # ""
          /\ store[i].lastReminder = NoDate
          /\ SendsFor(sent, store[i].slackMessageId, {"reminder"}) = {}
          /\ store[j].status = "Open"
          /\ SendsFor(sent, store[j].slackMessageId, {"reminder"}) # {}

----------------------------------------------------------------------------
(* Properties of the batch specification (BatchSpec) *)

\* the messages a run worked on in a pass
Worked(st, out, ops, pass) ==
    {st[i].slackMessageId : i \in {j \in 1..Len(st) :
                                     Attempted(out, st[j].slackMessageId, ops, pass)}}

\* C22: a cron run works on at most 20 notes in its reminder pass and at
\* most 20 in its status pass, however many are due or drifted.
C22_AtMostTwentyPerPass ==
    last.ev.type = "cron" =>
        /\ Cardinality(Worked(store, sent, {"reminder"}, "reminder")) <= 20
        /\ Cardinality(Worked(store, sent, {"react", "unreact", "status"}, "sync")) <= 20

\* a run over more than 20 waiting notes that worked on exactly 20 in each
\* pass and left the twenty-first as it was
C22_Witness ==
    /\ last.ev.type = "cron" /\ last.outcome = "ok"
    /\ Len(store) > 20
    /\ Cardinality(Worked(store, sent, {"reminder"}, "reminder")) = 20
    /\ Cardinality(Worked(store, sent, {"react", "unreact", "status"}, "sync")) = 20
    /\ store[21] = Waiting(21)

\* the request does not carry the configured secret, or none is configured
BadCredential(request) ==
    \/ request.cronSecret = ""
    \/ request.authHeader = ""
    \/ request.authHeader # Bearer(request.cronSecret)

\* C23: a cron request whose Authorization header is absent or does not
\* match the configured secret, or that arrives while no secret is
\* configured, is answered "unauthorized" with no query made, nothing sent
\* and the database as it was.
C23_BadCredentialIsRejected ==
    [][ ( last'.ev.type = "cron" /\ BadCredential(probe') ) =>
            /\ last'.outcome = "unauthorized"
            /\ sent' = <<>>
            /\ store' = store ]_vars

\* a request with a well-formed but empty credential arrived at a
\* deployment without a secret, over a database with work waiting, and
\* was turned away
C23_Witness ==
    /\ last.ev.type = "cron" /\ last.outcome = "unauthorized"
    /\ probe.cronSecret = "" /\ probe.authHeader = "Bearer "
    /\ Len(store) > 0 /\ store[1] = Waiting(1)

----------------------------------------------------------------------------
(* Properties of the webhook specification (WebhookSpec) *)

\* C24: every background task was registered after its request had been
\* answered with 200, and the database is read or written, the classifier
\* called and Slack written to only while such a task runs.
C24_AcknowledgedBeforeProcessing ==
    [][ /\ \A k \in 1..Len(webhook'.tasks) : webhook'.tasks[k].acked
        /\ (store' # store \/ sent' # sent) =>
              /\ webhook.tasks # <<>>
              /\ Head(webhook.tasks).acked
              /\ webhook'.tasks = Tail(webhook.tasks) ]_vars

\* a message was answered with 200, and its task then created the note
C24_Witness ==
    /\ last.ev.type = "message" /\ last.outcome = "created"
    /\ webhook.response = 200 /\ webhook.tasks = <<>>
    /\ Len(store) = 1

\* the user's window has taken its ten events and has not expired
Exhausted(window, t) ==
    /\ window.admitted >= RATE_LIMIT_MAX
    /\ t <= window.opened + RATE_LIMIT_WINDOW_MS

\* C25: no user has more than 10 message events admitted in one window of
\* 60 seconds counted from the first admitted one, and a message event of
\* a user whose window is used up is answered 200 and registers no task.
C25_TenPerWindow ==
    [][ \A u \in Users :
          /\ probe'.windows[u].admitted <= RATE_LIMIT_MAX
          /\ ( /\ Exhausted(probe.windows[u], now)
               /\ probe'.asked = u
               /\ now' = now /\ Len(webhook'.tasks) >= Len(webhook.tasks) )
             => /\ ~probe'.queued
                /\ webhook'.response = 200
                /\ webhook'.tasks = webhook.tasks
                /\ probe'.windows = probe.windows ]_vars

\* at the last millisecond of a window in which ten of a user's messages
\* were admitted, one more arrived and was answered without a task
C25_Witness ==
    /\ probe.asked = "U1" /\ ~probe.queued
    /\ probe.windows["U1"] = [opened |-> 0, admitted |-> RATE_LIMIT_MAX]
    /\ now = RATE_LIMIT_WINDOW_MS
    /\ webhook.response = 200 /\ webhook.tasks = <<>>

\* C33: every request is sent exactly one response: once a request has
\* been handled, res.json was called once for it, whatever its event and
\* whatever the background tasks did since.
C33_OneResponsePerRequest == webhook = Idle \/ webhook.responses = 1

----------------------------------------------------------------------------
(* Drift specification: a database of notes that are Done and mirrored     *)
(* and of notes reopened in Notion after Done was mirrored, the mirrored   *)
(* ones created first or last, and cron runs over it.  No chat event and   *)
(* no edit in Notion occurs.                                               *)

Settled(k) ==
    [buildNotionProperties(NewEntry("A", ToString(k), WithoutAction))
       EXCEPT !.status = "Done", !.syncedStatus = "Done"]

Reopened(k) ==
    [buildNotionProperties(NewEntry("A", ToString(k), WithoutAction))
       EXCEPT !.syncedStatus = "Done"]

SettledFirst(n, m) == [k \in 1..(n + m) |-> IF k <= n THEN Settled(k) ELSE Reopened(k)]

SettledLast(n, m) == [k \in 1..(n + m) |-> IF k <= m THEN Reopened(k) ELSE Settled(k)]

DriftRun(fault) ==
    LET r == cronHandler(store, TRUE, fault, now, service)
    IN  /\ store' = r.store
        /\ sent' = r.sent
        /\ last' = Ran([type |-> "cron", ts |-> "", thread |-> "",
                        what |-> "authorized"], r.outcome)
        /\ UNCHANGED <<now, probe, service, rateLimitMap, webhook>>

DriftInit ==
    /\ store \in {SettledFirst(n, m) : n \in 0..MaxSynced, m \in 0..MaxDrifted}
                 \cup {SettledLast(n, m) : n \in 0..MaxSynced, m \in 0..MaxDrifted}
    /\ sent = <<>>
    /\ last = Ran(NoEvent, "init")
    /\ now = 0
    /\ probe = 0
    /\ service = "daily"
    /\ rateLimitMap = NoLimits
    /\ webhook = Idle

DriftNext == \E fault \in BatchFaults : DriftRun(fault)

DriftSpec == DriftInit /\ [][DriftNext]_vars

InDrift(st) == {i \in Live(st) : needsSync(st[i].status, st[i].syncedStatus)}

\* C38: with no chat event and no edit, a cron run in which every call
\* succeeds takes at least one note out of drift as long as any note is
\* drifted, however many notes are in sync; so after finitely many such runs
\* no note is drifted.
C38_DriftIsWorkedOff ==
    [][ ( CleanRun(last', sent') /\ InDrift(store) # {} )
        => /\ InDrift(store') \subseteq InDrift(store)
           /\ InDrift(store') # InDrift(store) ]_vars

----------------------------------------------------------------------------
(* Further properties of the capture specification (CaptureSpec) *)

\* C36: when a delivery of a note-intent message created the note and
\* failed before the acknowledgement was complete, and the message is then
\* delivered again and that delivery runs without error, the user has the
\* reaction and the reply for the message from the two deliveries together.
C36_LaterDeliveryAcknowledges ==
    [][ ( /\ last.ev.type = "message" /\ last.outcome = "createdThenError"
          /\ last'.ev.type = "message" /\ last'.ev.ts = last.ev.ts
          /\ last'.ev.what = "note"
          /\ probe'.fault = "none" )
        => LET out == sent \o sent'
           IN  /\ \E k \in SendsFor(out, last.ev.ts, {"react"}) : out[k].ok
               /\ \E k \in SendsFor(out, last.ev.ts, {"reply"}) : out[k].ok ]_vars

----------------------------------------------------------------------------
(* Further properties of the restore specification (RestoreSpec) *)

\* C35: in every state, removing the delete-marker from a message that
\* cannot be fetched from the chat history, or whose classification is not
\* a meaningful note with a category, creates no note and sends nothing,
\* whichever call may fail.
C35_NoRestoreWithoutANote ==
    \A ts \in Msgs, fetched \in BOOLEAN, raw \in RawResponses \cup {NoResponse},
       fault \in RouterFaults :
       LET r == handleReactionRemoved(store, DeleteMarker, ts, Channel, fetched, raw, fault)
           c == classifyMessageWithIntent(MsgText(ts), raw)
       IN  ( ~fetched \/ c.intent # "note" \/ ~c.isMeaningful \/ c.category = "" )
           => r.store = store /\ r.sent = <<>>

\* the note of m1 was deleted; the delete-marker was then removed and the
\* message was no longer a note: nothing was created, nothing sent
C35_Witness ==
    /\ last.ev.type = "reaction_removed" /\ last.ev.what = DeleteMarker
    /\ last.ev.ts = "m1" /\ last.outcome = "notANote"
    /\ Len(store) = 1 /\ store[1].archived
    /\ sent = <<>>

----------------------------------------------------------------------------
(* Properties of the race specification (RaceSpec) *)

DeliveriesOf(ts) ==
    {k \in 1..Len(webhook.tasks) :
        webhook.tasks[k].kind = "message" /\ webhook.tasks[k].ts = ts}

\* C32: interleaved deliveries of one note-intent message create at most
\* one note each (and no note is created but by a delivery), and a delivery
\* whose duplicate check is answered after a note for the message exists
\* creates nothing.
C32_AtMostOneNotePerDelivery ==
    [][ /\ Cardinality(NotesOf(store', "m1")) - Cardinality(NotesOf(store, "m1"))
             <= Cardinality({k \in DeliveriesOf("m1") :
                                /\ webhook.tasks[k].pc = "create"
                                /\ webhook'.tasks[k].pc = "done"})
        /\ \A k \in DeliveriesOf("m1") :
              ( /\ webhook.tasks[k].pc = "check" /\ webhook'.tasks[k].pc # "check"
                /\ NotesOf(store, "m1") # {} )
              => /\ webhook'.tasks[k].pc = "done"
                 /\ store' = store
        /\ \A k \in DeliveriesOf("m1") :
              webhook.tasks[k].pc = "done" => webhook'.tasks[k].pc = "done" ]_vars

\* three deliveries of the message, all checked before any created: three
\* notes for the one message
C32_Witness ==
    /\ Cardinality(DeliveriesOf("m1")) = 3
    /\ \A k \in DeliveriesOf("m1") : webhook.tasks[k].pc = "done"
    /\ Cardinality(NotesOf(store, "m1")) = 3

ReplyTexts == {Trim(MsgText(r)) : r \in ThreadReplyIds}

\* C39: under every interleaving of thread-reply appends (and captures), a
\* note's content is the text it was created with followed by pairs of the
\* separator and an appended reply text: an append can be lost but the
\* creation text is never removed or altered.
C39_ContentKeepsCreationText ==
    \A i \in 1..Len(store) :
       LET content == store[i].content
       IN  /\ Len(content) % 2 = 1
           /\ content[1] = Trim(MsgText(store[i].slackMessageId))
           /\ \A j \in 2..Len(content) :
                 IF j % 2 = 0 THEN content[j] = Separator
                 ELSE content[j] \in ReplyTexts /\ content[j - 1] = Separator

\* last write wins: both replies found the note and wrote, one reply is lost
C39_Witness ==
    /\ Len(webhook.tasks) = 2
    /\ \A k \in 1..2 : /\ webhook.tasks[k].kind = "reply"
                        /\ webhook.tasks[k].pc = "done"
                        /\ webhook.tasks[k].page = 1
    /\ webhook.tasks[1].ts = "r1" /\ webhook.tasks[2].ts = "r2"
    /\ store[1].content = <<"A", Separator, "x">>

----------------------------------------------------------------------------
(* Properties of the mirror specification (MirrorSpec) *)

\* a cron run that ended after its reminder pass, at the status query
ReminderPassOnly(l) == l.ev.type = "cron" /\ l.outcome = "failed"

\* C18: a top-level message, a thread reply, a done-marker reaction added
\* or removed, and the reminder pass of a cron run each leave the
\* syncedStatus of every note that exists when the event arrives unchanged.
C18_OnlySyncWritesSyncedStatus ==
    [][ ( \/ last'.ev.type \in {"message", "reply"}
          \/ DoneReaction(last', "reaction_added")
          \/ DoneReaction(last', "reaction_removed")
          \/ ReminderPassOnly(last') )
        => /\ Len(store') >= Len(store)
           /\ \A i \in 1..Len(store) :
                 store'[i].syncedStatus = store[i].syncedStatus ]_vars

\* the done-marker was added to a note not yet mirrored as Done: its status
\* is Done and its syncedStatus still Open
C18_Witness ==
    /\ DoneReaction(last, "reaction_added") /\ last.outcome = "done"
    /\ \E i \in Live(store) :
          /\ store[i].slackMessageId = last.ev.ts
          /\ store[i].status = "Done" /\ store[i].syncedStatus = "Open"

----------------------------------------------------------------------------
(* Properties of the restore specification (RestoreSpec) *)

DeleteReaction(l, type) == l.ev.type = type /\ l.ev.what = DeleteMarker

\* the message an event is aimed at: the thread of a reply, the item of a
\* reaction
TargetOf(ev) == IF ev.type = "reply" THEN ev.thread ELSE ev.ts

\* C19: when the delete-marker is added to a tracked note's message, the
\* note is archived and its external id finds no note any more; a thread
\* reply or done-marker reaction aimed at an id that finds no note changes
\* nothing; and when the delete-marker is then removed and the restore
\* completes, exactly one page is added, not archived, with the same
\* external id, status Open and syncedStatus Open, the other pages staying
\* as they were.
C19_DeleteThenRestore ==
    [][ /\ ( DeleteReaction(last', "reaction_added") /\ last'.outcome = "deleted" )
           => /\ store'[findEntryBySlackMessageId(store, last'.ev.ts)].archived
              /\ findEntryBySlackMessageId(store', last'.ev.ts) = 0
        /\ ( /\ last'.ev.type = "reply" \/ DoneReaction(last', "reaction_added")
                                        \/ DoneReaction(last', "reaction_removed")
             /\ findEntryBySlackMessageId(store, TargetOf(last'.ev)) = 0 )
           => store' = store
        /\ ( /\ DeleteReaction(last, "reaction_added") /\ last.outcome = "deleted"
             /\ DeleteReaction(last', "reaction_removed") /\ last'.outcome = "restored"
             /\ last'.ev.ts = last.ev.ts )
           => /\ Len(store') = Len(store) + 1
              /\ SubSeq(store', 1, Len(store)) = store
              /\ Newest'.slackMessageId = last'.ev.ts
              /\ ~Newest'.archived
              /\ Newest'.status = "Open" /\ Newest'.syncedStatus = "Open" ]_vars


\* a reaction event with a symbol that is no control symbol, or with the
\* done-marker (added or removed) or the delete-marker (added) aimed at a
\* message that finds no note
Unrecognized(st, ev) ==
    /\ ev.type \in {"reaction_added", "reaction_removed"}
    /\ \/ ev.what \notin {DoneMarker, DeleteMarker}
       \/ /\ findEntryBySlackMessageId(st, ev.ts) = 0
          /\ ~(ev.type = "reaction_removed" /\ ev.what = DeleteMarker)

\* C20: a reaction event, added or removed, whose symbol is neither the
\* done-marker nor the delete-marker, and a done-marker or delete-marker
\* added (or a done-marker removed) on a message that is not a tracked
\* note, change no note and send nothing.
C20_UnrecognizedReactionsAreNoOps ==
    [][ Unrecognized(store, last'.ev) => (store' = store /\ sent' = <<>>) ]_vars

\* the done-marker was added to the message of an archived note while the
\* handler could have posted a confirmation
C20_Witness ==
    /\ DoneReaction(last, "reaction_added") /\ last.outcome = "untracked"
    /\ \E i \in 1..Len(store) : store[i].archived /\ store[i].slackMessageId = last.ev.ts
    /\ findEntryBySlackMessageId(store, last.ev.ts) = 0
    /\ sent = <<>>

----------------------------------------------------------------------------
(* Properties of the reminder specification (RemindSpec) *)

UsedUp(page) ==
    page.status = "Open" /\ extractNumber(page.reminderCount) >= AUTO_PARK_THRESHOLD

Delivered(out, page) ==
    \E k \in SendsFor(out, page.slackMessageId, {"reminder"}) : out[k].ok

\* C11: in a cron run in which every call succeeds, a note whose reminder
\* was delivered has its reminderCount raised by exactly one and its
\* lastReminder set to the current time; in any cron run, a note whose
\* reminder was not delivered keeps both.
C11_DeliveryIsRecorded ==
    [][ last'.ev.type = "cron" =>
          \A i \in Live(store) :
             /\ ( CleanRun(last', sent') /\ Delivered(sent', store[i]) )
                => /\ extractNumber(store'[i].reminderCount)
                        = extractNumber(store[i].reminderCount) + 1
                   /\ store'[i].lastReminder = now
             /\ ~Delivered(sent', store[i])
                => /\ store'[i].reminderCount = store[i].reminderCount
                   /\ store'[i].lastReminder = store[i].lastReminder ]_vars

----------------------------------------------------------------------------
(* Hourly specification: the scheduler calls the cron handler once every   *)
(* hour.  probe keeps, per page, the hour of the last delivered reminder,  *)
(* and whether no store write has failed so far.                           *)

HourlySeeds == {0, DAILY_THRESHOLD}

HourlyRun(fault) ==
    /\ now < MaxHours
    /\ now' = now + 1
    /\ LET r == cronHandler(store, TRUE, fault, now + 1, service)
       IN  /\ store' = r.store
           /\ sent' = r.sent
           /\ last' = Ran([type |-> "cron", ts |-> "", thread |-> "",
                           what |-> "authorized"], r.outcome)
           /\ probe' = [delivered |->
                            [i \in 1..Len(store) |->
                               IF Delivered(r.sent, store[i]) THEN now + 1
                               ELSE probe.delivered[i]],
                        writesOk |-> probe.writesOk /\ fault.kind # "store"]
    /\ UNCHANGED <<service, rateLimitMap, webhook>>

HourlyInit ==
    /\ store \in {Reminded(Captured(WithAction, WithoutAction), 1, n) : n \in HourlySeeds}
    /\ sent = <<>>
    /\ last = Ran(NoEvent, "init")
    /\ now = 0
    /\ probe = [delivered |-> [i \in 1..Len(store) |-> store[i].lastReminder],
                writesOk |-> TRUE]
    /\ service \in ReminderServices
    /\ rateLimitMap = NoLimits
    /\ webhook = Idle

HourlyNext == \E fault \in CronFaults : HourlyRun(fault)

HourlySpec == HourlyInit /\ [][HourlyNext]_vars

\* the wait of the tier a reminder count is in
TierWait(reminderCount) ==
    IF reminderCount < DAILY_THRESHOLD THEN oneDay
    ELSE IF reminderCount < EVERY_OTHER_DAY_THRESHOLD THEN twoDays
    ELSE oneWeek

\* C34: over hourly runs whose store writes all succeed, a reminder is
\* delivered for a note no sooner than 24 hours after the previous one
\* delivered for it (48 hours from three reminders on, 7 days from six on).
C34_RemindersKeepTheirDistance ==
    [][ probe'.writesOk =>
          \A i \in 1..Len(store) :
             ( Delivered(sent', store[i]) /\ probe.delivered[i] # NoDate )
             => now' - probe.delivered[i]
                  >= TierWait(extractNumber(store[i].reminderCount)) ]_vars

----------------------------------------------------------------------------
(* needsReminder on its own: the arguments are drawn from sets that put    *)
(* the time since the last reminder on both sides of every tier's wait.    *)

ProbeDates == {NoDate, 0, 1}

ProbeTimes ==
    {oneDay - 1, oneDay, oneDay + 1, twoDays - 1, twoDays, twoDays + 1,
     oneWeek - 1, oneWeek, oneWeek + 1, 2 * oneWeek}

NeedsInit ==
    /\ probe \in [reminderCount : 0..MaxCount, lastReminderDate : ProbeDates,
                  called : {FALSE}, needs : {FALSE}]
    /\ now \in ProbeTimes
    /\ store = <<>>
    /\ sent = <<>>
    /\ last = Ran(NoEvent, "init")
    /\ service = "tiered"
    /\ rateLimitMap = NoLimits
    /\ webhook = Idle

CallNeedsReminder ==
    /\ ~probe.called
    /\ probe' = [probe EXCEPT !.called = TRUE,
                              !.needs = needsReminder(probe.reminderCount,
                                                      probe.lastReminderDate, now)]
    /\ UNCHANGED <<store, sent, last, now, service, rateLimitMap, webhook>>

NeedsNext == CallNeedsReminder

NeedsSpec == NeedsInit /\ [][NeedsNext]_vars

\* C9: needsReminder answers no for every reminderCount of 8 or more,
\* whatever the last reminder date (absent included) and the current time.
C9_NoReminderFromEight ==
    (probe.called /\ probe.reminderCount >= 8) => ~probe.needs

\* C10: with a last reminder date, needsReminder answers yes exactly when
\* the time since it is at least 24 hours for a count below 3, at least 48
\* hours for a count of 3 to 5, at least 7 days for a count of 6 or 7; with
\* no last reminder date it answers yes for every count below 8.
C10_TieredSchedule ==
    probe.called =>
        LET count == probe.reminderCount
            since == now - probe.lastReminderDate
        IN  IF probe.lastReminderDate = NoDate
            THEN count < 8 => probe.needs
            ELSE /\ count < 3 => (probe.needs <=> since >= 24)
                 /\ (count >= 3 /\ count <= 5) => (probe.needs <=> since >= 48)
                 /\ (count >= 6 /\ count <= 7) => (probe.needs <=> since >= 7 * 24)

C10_Witness ==
    /\ probe.called /\ probe.needs
    /\ probe.reminderCount = 6
    /\ probe.lastReminderDate = 0 /\ now = 7 * 24

----------------------------------------------------------------------------
(* classifyMessageWithIntent on its own: a text, empty or not, and an      *)
(* answer of ClassifierResponses.                                          *)

ProbeTexts == {"A", "B", ""}

ClassifyInit ==
    /\ probe \in [text : ProbeTexts, raw : ClassifierResponses,
                  called : {FALSE}, result : {Raised}]
    /\ store = <<>>
    /\ sent = <<>>
    /\ last = Ran(NoEvent, "init")
    /\ now = 0
    /\ service = "daily"
    /\ rateLimitMap = NoLimits
    /\ webhook = Idle

CallClassify ==
    /\ ~probe.called
    /\ probe' = [probe EXCEPT !.called = TRUE,
                              !.result = classifyMessageWithIntent(probe.text, probe.raw)]
    /\ UNCHANGED <<store, sent, last, now, service, rateLimitMap, webhook>>

ClassifyNext == CallClassify

ClassifySpec == ClassifyInit /\ [][ClassifyNext]_vars

\* C15: for every non-empty text, whenever the model call fails (no API
\* key, timeout, empty or non-text content, malformed JSON, missing intent
\* or isMeaningful) classifyMessageWithIntent returns intent note,
\* isMeaningful true, category Uncategorized, confidence 0; and for a
\* non-empty text it never throws to its caller.
C15_FailureGivesFallback ==
    ( probe.called /\ probe.text # "" )
    => /\ probe.result # Raised
       /\ probe.raw.failure # "none"
          => /\ probe.result.intent = "note"
             /\ probe.result.isMeaningful
             /\ probe.result.category = "Uncategorized"
             /\ probe.result.confidence = 0

C15_Witness ==
    /\ probe.called /\ probe.text = "A"
    /\ probe.raw.failure = "badJson"
    /\ probe.result.intent = "note" /\ probe.result.category = "Uncategorized"

----------------------------------------------------------------------------
(* Extractor specification: extractUrls is applied once to a text drawn    *)
(* from every short text and from long texts around the match limit.       *)

LinkUrls == {"https://a.com", "https://b.com"}

LinkTokens == {Word} \cup {WrappedLink(u) : u \in LinkUrls} \cup {BareUrl(u) : u \in LinkUrls}

ShortTexts == UNION {[1..n -> LinkTokens] : n \in 0..MaxLinks}

NumberedUrl(k) == "https://n.com/" \o ToString(k)

\* wrappedRun wrapped links followed by bareRun bare URLs, all different
LongText(wrappedRun, bareRun) ==
    [k \in 1..wrappedRun |-> WrappedLink(NumberedUrl(k))]
    \o [k \in 1..bareRun |-> BareUrl(NumberedUrl(wrappedRun + k))]

Runs == {0, MaxRun - 51, MaxRun - 1, MaxRun}

LongTexts == {LongText(wrappedRun, bareRun) : wrappedRun \in Runs, bareRun \in Runs}

ExtractInit ==
    /\ probe \in [text : ShortTexts \cup LongTexts, called : {FALSE}, urls : {<<>>}]
    /\ now = 0
    /\ store = <<>>
    /\ sent = <<>>
    /\ last = Ran(NoEvent, "init")
    /\ service = "daily"
    /\ rateLimitMap = NoLimits
    /\ webhook = Idle

CallExtractUrls ==
    /\ ~probe.called
    /\ probe' = [probe EXCEPT !.called = TRUE, !.urls = extractUrls(probe.text)]
    /\ UNCHANGED <<store, sent, last, now, service, rateLimitMap, webhook>>

ExtractNext == CallExtractUrls

ExtractSpec == ExtractInit /\ [][ExtractNext]_vars

----------------------------------------------------------------------------
(* Properties of the extractor specification (ExtractSpec) *)

Links(text) == SelectSeq(text, LAMBDA token : token.kind # "word")

\* position of the first occurrence of a string in a sequence, 0 if none
FirstAt(seq, x) ==
    IF \E k \in 1..Len(seq) : seq[k] = x
    THEN CHOOSE k \in 1..Len(seq) : seq[k] = x /\ \A j \in 1..(k - 1) : seq[j] # x
    ELSE 0

\* C26: the list extractUrls returns holds no string twice.
C26_NoDuplicateUrls ==
    probe.called =>
        \A i, j \in 1..Len(probe.urls) : probe.urls[i] = probe.urls[j] => i = j

\* C27: of two URLs extractUrls returns, the one that occurs first in the
\* text, wrapped or bare, comes first in the list.
C27_FirstSeenOrder ==
    probe.called =>
        LET seen == UrlsOf(Links(probe.text))
        IN  \A u, v \in {probe.urls[k] : k \in 1..Len(probe.urls)} :
               FirstAt(seen, u) < FirstAt(seen, v)
                   => FirstAt(probe.urls, u) < FirstAt(probe.urls, v)

\* C28: extractUrls returns, and returns at most 100 URLs however many
\* links of either syntax the text holds; a text without links gives the
\* empty list.
C28_AtMostHundredUrls ==
    probe.called =>
        /\ Len(probe.urls) <= 100
        /\ Links(probe.text) = <<>> => probe.urls = <<>>

\* a text of 100 wrapped links and 101 bare URLs, all different, of which
\* the first hundred were returned
C28_Witness ==
    /\ probe.called
    /\ Len(Links(probe.text)) > 200
    /\ Len(probe.urls) = 100
    /\ probe.urls = UrlsOf(Take(Links(probe.text), 100))

----------------------------------------------------------------------------
(* Answer specification: a question is asked once over a database of up to *)
(* MaxAsked notes; probe keeps the question, the pages the search ranked   *)
(* for it and the answer.                                                  *)

\* how Status and URLs are spread over the notes of the database
StatusPatterns == {"open", "done", "alternate", "parkedFirst"}
UrlPatterns == {"all", "none", "alternate"}

StatusAt(pattern, k) ==
    CASE pattern = "open" -> "Open"
      [] pattern = "done" -> "Done"
      [] pattern = "alternate" -> IF k % 2 = 1 THEN "Done" ELSE "Open"
      [] OTHER -> IF k = 1 THEN "Parked" ELSE "Open"

HasUrlsAt(pattern, k) ==
    CASE pattern = "all" -> TRUE
      [] pattern = "none" -> FALSE
      [] OTHER -> k % 2 = 0

Asked(n, statuses, urls) ==
    [k \in 1..n |->
        [buildNotionProperties(NewEntry(IF HasUrlsAt(urls, k) THEN "B" ELSE "A",
                                        ToString(k), WithAction))
           EXCEPT !.status = StatusAt(statuses, k)]]

Forward(n) == [k \in 1..n |-> k]
Backward(n) == [k \in 1..n |-> n + 1 - k]

AnswerInit ==
    /\ store \in {Asked(n, statuses, urls) :
                     n \in 0..MaxAsked, statuses \in StatusPatterns, urls \in UrlPatterns}
    /\ probe \in [isUrlQuestion : BOOLEAN, hits : {Forward(Len(store)), Backward(Len(store))},
                  modelFails : BOOLEAN, called : {FALSE},
                  answer : {Answer("", <<>>, FALSE)}]
    /\ sent = <<>>
    /\ last = Ran(NoEvent, "init")
    /\ now = 0
    /\ service = "daily"
    /\ rateLimitMap = NoLimits
    /\ webhook = Idle

CallAnswerChannelQuestion ==
    /\ ~probe.called
    /\ probe' = [probe EXCEPT !.called = TRUE,
                              !.answer = answerChannelQuestion(store, probe.isUrlQuestion,
                                                               probe.hits, probe.modelFails)]
    /\ UNCHANGED <<store, sent, last, now, service, rateLimitMap, webhook>>

AnswerNext == CallAnswerChannelQuestion

AnswerSpec == AnswerInit /\ [][AnswerNext]_vars

----------------------------------------------------------------------------
(* Properties of the answer specification (AnswerSpec) *)

\* the notes a question can be answered from: found for it (with links, if
\* it asks for links) and Open
OpenCandidates ==
    {i \in 1..Len(store) :
        /\ store[i].status = "Open"
        /\ probe.isUrlQuestion => store[i].urls # <<>>}

\* C30: the notes answerChannelQuestion hands to generateAnswer are Open
\* and at most 5, and when no Open note is found it returns its fixed
\* message without calling the model.
C30_OnlyOpenNotesAtMostFive ==
    probe.called =>
        /\ Len(probe.answer.notes) <= 5
        /\ \A k \in 1..Len(probe.answer.notes) :
              /\ probe.answer.notes[k].status = "Open"
              /\ probe.answer.notes[k].pageId \in OpenCandidates
        /\ OpenCandidates = {} =>
              /\ ~probe.answer.invoked
              /\ probe.answer.text \in {"noOpenLinks", "noOpenNotes"}
        /\ OpenCandidates # {} => probe.answer.invoked

\* a free-text question over seven notes of which six are Open: the model
\* was called with five of them, and none of them the parked one the
\* search ranked too
C30_Witness ==
    /\ probe.called /\ ~probe.isUrlQuestion
    /\ Len(store) = 7 /\ Cardinality(OpenCandidates) = 6
    /\ store[1].status = "Parked" /\ probe.hits[1] = 1
    /\ probe.answer.invoked /\ Len(probe.answer.notes) = 5

====
